---- MODULE Spec2Model ----
(***************************************************************************)
(* A model of apictx: the pipeline Discover, Parse, Extract, Link,         *)
(* Validate, Index, Emit of src/src/apictx/pipeline.py and the symbol      *)
(* extraction of src/src/apictx/extract.py.                                *)
(*                                                                         *)
(* Text is modelled character by character: a str is a sequence of         *)
(* one-character strings, so that split, strip, join and the ordering of   *)
(* sorted() are computed the way Python computes them.  An Optional value  *)
(* is a sequence of length 0 (None) or 1.                                  *)
(***************************************************************************)
EXTENDS Naturals, Sequences, FiniteSets, Bags, TLC

\* ------------------------------------------------------------------ text

\* The characters of the model in code-point order (the order of str.__lt__).
Alphabet ==
  << "\n", " ", "$", "'", "(", ")", "-", ".", "/", "0", "1", "2", ":", ">",
     "A", "B", "C", "D", "E", "K", "L", "M", "N", "O", "P", "R", "S", "T", "V", "X", "Y", "[", "]", "^", "_",
     "a", "b", "c", "d", "e", "f", "g", "h", "i", "j", "k", "l", "m", "n", "o", "p",
     "q", "r", "s", "t", "u", "v", "w", "x", "y", "z" >>

Chars == {Alphabet[i] : i \in DOMAIN Alphabet}

Ord == [c \in Chars |-> CHOOSE i \in DOMAIN Alphabet : Alphabet[i] = c]

None == <<>>
Some(v) == <<v>>

\* a < b for two str values
RECURSIVE TextLess(_, _)
TextLess(a, b) ==
  IF a = <<>> THEN b # <<>>
  ELSE IF b = <<>> THEN FALSE
  ELSE IF Head(a) = Head(b) THEN TextLess(Tail(a), Tail(b))
  ELSE Ord[Head(a)] < Ord[Head(b)]

\* str.find for one character: the first index of c in s, 0 when absent
Find(s, c) ==
  IF \E i \in DOMAIN s : s[i] = c
  THEN CHOOSE i \in DOMAIN s : s[i] = c /\ \A j \in 1..(i - 1) : s[j] # c
  ELSE 0

\* str.rfind for one character: the last index of c in s, 0 when absent
RFind(s, c) ==
  IF \E i \in DOMAIN s : s[i] = c
  THEN CHOOSE i \in DOMAIN s : s[i] = c /\ \A j \in (i + 1)..Len(s) : s[j] # c
  ELSE 0

\* s.split(sep): always at least one part
RECURSIVE Split(_, _)
Split(s, sep) ==
  LET i == Find(s, sep)
  IN IF i = 0 THEN <<s>>
     ELSE <<SubSeq(s, 1, i - 1)>> \o Split(SubSeq(s, i + 1, Len(s)), sep)

\* s.split(sep, 1)[0]
SplitFirst(s, sep) ==
  LET i == Find(s, sep) IN IF i = 0 THEN s ELSE SubSeq(s, 1, i - 1)

\* s.rsplit(sep, 1)[0]
RSplitHead(s, sep) ==
  LET i == RFind(s, sep) IN IF i = 0 THEN s ELSE SubSeq(s, 1, i - 1)

\* s.split(sep)[-1]
LastPart(s, sep) ==
  LET parts == Split(s, sep) IN parts[Len(parts)]

\* the characters str.strip() and str.split() take for blanks
Whitespace == {" ", "\n"}

\* s.lstrip(chars)
RECURSIVE LStripChars(_, _)
LStripChars(s, chars) ==
  IF s # <<>> /\ Head(s) \in chars THEN LStripChars(Tail(s), chars) ELSE s

\* s.rstrip(chars)
RECURSIVE RStripChars(_, _)
RStripChars(s, chars) ==
  IF s # <<>> /\ s[Len(s)] \in chars
  THEN RStripChars(SubSeq(s, 1, Len(s) - 1), chars) ELSE s

\* s.strip(): leading and trailing blanks removed
LStrip(s) == LStripChars(s, Whitespace)

RStrip(s) == RStripChars(s, Whitespace)

Strip(s) == RStrip(LStrip(s))

\* s.startswith(prefix), s.endswith(suffix), sub in s
StartsWith(s, prefix) ==
  Len(prefix) <= Len(s) /\ SubSeq(s, 1, Len(prefix)) = prefix

EndsWith(s, suffix) ==
  Len(suffix) <= Len(s) /\ SubSeq(s, Len(s) - Len(suffix) + 1, Len(s)) = suffix

Contains(s, sub) ==
  \E i \in 1..(Len(s) - Len(sub) + 1) : SubSeq(s, i, i + Len(sub) - 1) = sub

\* s.split(): the maximal runs of non-blank characters
RECURSIVE Words(_)
Words(s) ==
  LET t == LStrip(s)
  IN IF t = <<>> THEN <<>>
     ELSE LET blanks == {i \in DOMAIN t : t[i] \in Whitespace}
              end == IF blanks = {} THEN Len(t) + 1
                     ELSE CHOOSE i \in blanks : \A j \in blanks : i <= j
          IN <<SubSeq(t, 1, end - 1)>> \o Words(SubSeq(t, end, Len(t)))

\* s.splitlines(): the lines of s, no empty line after a final line break
SplitLines(s) ==
  IF s = <<>> THEN <<>>
  ELSE LET parts == Split(s, "\n")
       IN IF parts[Len(parts)] = <<>> THEN SubSeq(parts, 1, Len(parts) - 1) ELSE parts

\* tuple(items): every occurrence kept
KeepAll(items) == items

\* tuple(dict.fromkeys(items)): the first occurrence of each item, in order
RECURSIVE FromKeys(_)
FromKeys(items) ==
  IF items = <<>> THEN <<>>
  ELSE LET init == FromKeys(SubSeq(items, 1, Len(items) - 1))
           last == items[Len(items)]
       IN IF \E i \in DOMAIN init : init[i] = last THEN init ELSE Append(init, last)

\* dict.get(key, default) on a finite map
Get(map, key, default) ==
  IF key \in DOMAIN map THEN map[key] ELSE default

UpperToLower ==
  ("A" :> "a") @@ ("B" :> "b") @@ ("C" :> "c") @@ ("D" :> "d") @@ ("E" :> "e")
  @@ ("K" :> "k") @@ ("L" :> "l") @@ ("M" :> "m") @@ ("N" :> "n") @@ ("O" :> "o")
  @@ ("P" :> "p") @@ ("R" :> "r") @@ ("S" :> "s") @@ ("T" :> "t") @@ ("V" :> "v")
  @@ ("X" :> "x") @@ ("Y" :> "y")

\* str.lower
Lower(text) == [i \in DOMAIN text |-> Get(UpperToLower, text[i], text[i])]

\* sep.join(parts)
RECURSIVE Join(_, _)
Join(sep, parts) ==
  IF parts = <<>> THEN <<>>
  ELSE IF Len(parts) = 1 THEN parts[1]
  ELSE parts[1] \o sep \o Join(sep, Tail(parts))

Dot == <<".">>

\* the elements of a sequence
Range(s) == {s[i] : i \in DOMAIN s}

\* sorted(texts): ascending, duplicates kept
RECURSIVE InsertText(_, _)
InsertText(sorted, t) ==
  IF sorted = <<>> THEN <<t>>
  ELSE IF TextLess(t, Head(sorted)) THEN <<t>> \o sorted
  ELSE <<Head(sorted)>> \o InsertText(Tail(sorted), t)

RECURSIVE SortedTexts(_)
SortedTexts(s) ==
  IF s = <<>> THEN <<>>
  ELSE InsertText(SortedTexts(SubSeq(s, 1, Len(s) - 1)), s[Len(s)])

\* sorted(set(texts))
RECURSIVE SortedSet(_)
SortedSet(S) ==
  IF S = {} THEN <<>>
  ELSE LET m == CHOOSE x \in S : \A y \in S : ~TextLess(y, x)
       IN <<m>> \o SortedSet(S \ {m})

EmptyMap == <<>>

\* ------------------------------------------------------------- variables

VARIABLES
  schema_rejects,  \* the FQNs whose object jsonschema.validate rejects
  fn,              \* the function applied to the drawn inputs, "none" before
  in_symbols,      \* a drawn symbol sequence
  in_tables,       \* drawn alias tables: module FQN -> (local name -> target)
  arg,             \* the drawn argument of the other applied functions
  out,             \* what the applied function returned
  tree,            \* the source tree: path -> the file's content (a Menu key)
  run,             \* the number of run_pipeline calls made
  workers,         \* the worker count of the current call
  pc,              \* the stage the current call is about to execute
  paths,           \* discover's result
  started,         \* the number of parse tasks handed to a worker
  running,         \* the indices of the parse tasks being executed
  finished,        \* the indices of the completed parse tasks, in completion order
  results,         \* the completed tasks' return values, in completion order
  modules,         \* run_pipeline's modules dict, as (path, module) items
  extracted,       \* extract's result: run_pipeline's symbols
  linked,          \* link's result
  validated,       \* validate's result
  outdir,          \* the output directory: index.sqlite3 and the three artifacts
  result,          \* what the last call returned
  before,          \* outdir as it was when the current call started
  trace,           \* the stages the current call has executed
  emitted,         \* per successful call: its tree, completion order, symbols.jsonl
  edits            \* the number of edits made to the source tree

pureVars == <<fn, in_symbols, in_tables, arg, out>>

pipeVars == <<tree, run, workers, pc, paths, started, running, finished, results,
              modules, extracted, linked, validated, outdir, result, before, trace,
              emitted, edits>>

vars == <<schema_rejects, pureVars, pipeVars>>

\* --------------------------------------------------------------- symbols

Location(path, line, column) == [path |-> path, line |-> line, column |-> column]

\* One record shape for the five dataclasses of models.py; a field a kind
\* does not have is None (owner) or empty (bases, base_fqns).
Symbol(kind, fqn, location, owner, bases, base_fqns) ==
  [kind |-> kind, fqn |-> fqn, location |-> location,
   owner |-> owner, bases |-> bases, base_fqns |-> base_fqns]

Error(code, message, path) == [code |-> code, message |-> message, path |-> path]

\* ---------------------------------------------------------- syntax trees

\* The nodes of a parsed module (libcst) that extract_module and
\* build_import_tables look at; pos is the node's PositionProvider entry.
Pos(line, column) == [line |-> line, column |-> column]

\* decorators: the decorator expressions as code; doc: what get_docstring()
\* returns, an Optional text
FunctionDef(name, decorators, doc, pos) ==
  [node |-> "FunctionDef", name |-> name, decorators |-> decorators, doc |-> doc,
   pos |-> pos]

ClassDef(name, bases, body, pos) ==
  [node |-> "ClassDef", name |-> name, bases |-> bases, body |-> body, pos |-> pos]

SimpleStatementLine(body, pos) ==
  [node |-> "SimpleStatementLine", body |-> body, pos |-> pos]

\* expressions: a string literal with its quotes, a list or tuple display,
\* anything else as its code
SimpleString(value) == [node |-> "SimpleString", value |-> value]

List(elements) == [node |-> "List", elements |-> elements]

Tuple(elements) == [node |-> "Tuple", elements |-> elements]

Expression(code) == [node |-> "Expression", code |-> code]

\* targets: one Optional name per target, None for a target that is no Name
Assign(targets, value, pos) ==
  [node |-> "Assign", targets |-> targets, value |-> value, pos |-> pos]

AnnAssign(target, annotation, value, pos) ==
  [node |-> "AnnAssign", target |-> target, annotation |-> annotation,
   value |-> value, pos |-> pos]

TypeAlias(name, value, pos) ==
  [node |-> "TypeAlias", name |-> name, value |-> value, pos |-> pos]

ImportAlias(name, asname) == [name |-> name, asname |-> asname]

Import(names) == [node |-> "Import", names |-> names]

ImportFrom(relative, module, names) ==
  [node |-> "ImportFrom", relative |-> relative, module |-> module, names |-> names]

\* any other statement (pass, if, ...)
OtherStatement == [node |-> "Other"]

RECURSIVE Flatten(_)
Flatten(ss) == IF ss = <<>> THEN <<>> ELSE Head(ss) \o Flatten(Tail(ss))

\* --------------------------------------------------------------- extract

\* the literals the extraction compares with
RAISES_COLON == <<"r", "a", "i", "s", "e", "s", ":">>
RAISE_COLON == <<"r", "a", "i", "s", "e", ":">>
DEPRECATED == <<"d", "e", "p", "r", "e", "c", "a", "t", "e", "d">>
PROPERTY == <<"p", "r", "o", "p", "e", "r", "t", "y">>
CLASSMETHOD == <<"c", "l", "a", "s", "s", "m", "e", "t", "h", "o", "d">>
STATICMETHOD == <<"s", "t", "a", "t", "i", "c", "m", "e", "t", "h", "o", "d">>
OVERLOAD == <<"o", "v", "e", "r", "l", "o", "a", "d">>
TYPE_ALIAS == <<"T", "y", "p", "e", "A", "l", "i", "a", "s">>
DUNDER_ALL == <<"_", "_", "a", "l", "l", "_", "_">>

\* exported: None, or Some(the set of exported names)
_determine_visibility(name, exported) ==
  IF exported # None
  THEN IF name \in exported[1] THEN "public" ELSE "private"
  ELSE IF StartsWith(name, <<"_">>) THEN "private" ELSE "public"

\* a call that raised exc / that returned value
Raise(exc) == [exc |-> Some(exc), value |-> <<>>]
Return(value) == [exc |-> None, value |-> value]

\* the inner loop of _parse_docstring_raises from line i on: the index it
\* stops at and the names collected, or the IndexError of split()[0]
RECURSIVE RaisesSection(_, _, _)
RaisesSection(lines, i, names) ==
  IF i > Len(lines) THEN Return([i |-> i, names |-> names])
  ELSE LET stripped == Strip(lines[i])
           text == LStripChars(stripped, {"-", " "})
           words == Words(SplitFirst(text, ":"))
       IN IF stripped = <<>> THEN RaisesSection(lines, i + 1, names)
          ELSE IF EndsWith(stripped, <<":">>) /\ " " \notin Range(stripped)
          THEN Return([i |-> i, names |-> names])
          ELSE IF words = <<>> THEN Raise("IndexError")
          ELSE RaisesSection(lines, i + 1,
                             IF words[1] # <<>> THEN Append(names, words[1]) ELSE names)

\* the outer loop of _parse_docstring_raises from line i on
RECURSIVE RaisesScan(_, _, _)
RaisesScan(lines, i, names) ==
  IF i > Len(lines) THEN Return(names)
  ELSE LET ln == Lower(Strip(lines[i]))
       IN IF StartsWith(ln, RAISES_COLON) \/ StartsWith(ln, RAISE_COLON)
          THEN LET section == RaisesSection(lines, i + 1, names)
               IN IF section.exc # None THEN section
                  ELSE RaisesScan(lines, section.value.i, section.value.names)
          ELSE RaisesScan(lines, i + 1, names)

\* doc: an Optional text
_parse_docstring_raises(doc) ==
  IF doc = None \/ doc = Some(<<>>) THEN Return(<<>>)
  ELSE LET lines == [k \in DOMAIN SplitLines(doc[1]) |-> RStrip(SplitLines(doc[1])[k])]
           scan == RaisesScan(lines, 1, <<>>)
       IN IF scan.exc # None THEN scan ELSE Return(FromKeys(scan.value))

get_loc(path_str, node) == Location(path_str, node.pos.line, node.pos.column)

\* any(d.split("(")[0].endswith(suffix) for d in decorators)
AnyDecoratorEndsWith(decorators, suffix) ==
  \E k \in DOMAIN decorators : EndsWith(SplitFirst(decorators[k], "("), suffix)

_function_from_def(defn, parent_fqn, module_fqn, exported, path_str) ==
  LET base_fqn == (IF parent_fqn = None THEN module_fqn ELSE parent_fqn[1])
                  \o Dot \o defn.name
      decorators == defn.decorators
  IN [kind |-> "function", fqn |-> base_fqn, location |-> get_loc(path_str, defn),
      owner |-> parent_fqn, bases |-> <<>>, base_fqns |-> <<>>,
      docstring |-> defn.doc,
      decorators |-> decorators,
      visibility |-> _determine_visibility(defn.name,
                                           IF parent_fqn # None THEN None ELSE exported),
      deprecated |-> \E k \in DOMAIN decorators : Contains(decorators[k], DEPRECATED),
      is_classmethod |-> AnyDecoratorEndsWith(decorators, CLASSMETHOD),
      is_staticmethod |-> AnyDecoratorEndsWith(decorators, STATICMETHOD),
      is_property |-> AnyDecoratorEndsWith(decorators, PROPERTY),
      raises |-> _parse_docstring_raises(defn.doc).value,
      overload_of |-> IF AnyDecoratorEndsWith(decorators, OVERLOAD)
                      THEN Some(base_fqn) ELSE None]

_constant_from_assign(name, owner_fqn, visibility, path_str, node) ==
  [kind |-> "constant", fqn |-> owner_fqn \o Dot \o name,
   location |-> get_loc(path_str, node), owner |-> Some(owner_fqn),
   bases |-> <<>>, base_fqns |-> <<>>, visibility |-> visibility, deprecated |-> FALSE]

\* the export list of the module: None, or Some(exports) once an assignment
\* of a list or tuple display to __all__ was found
_collect_exports(mod) ==
  LET smalls == Flatten([i \in DOMAIN mod |->
                           IF mod[i].node = "SimpleStatementLine" THEN mod[i].body
                           ELSE <<>>])
      displays == {k \in DOMAIN smalls :
                     /\ smalls[k].node = "Assign"
                     /\ \E t \in DOMAIN smalls[k].targets :
                          smalls[k].targets[t] = Some(DUNDER_ALL)
                     /\ smalls[k].value.node \in {"List", "Tuple"}}
      Quoted(text) ==
        Len(text) >= 2 /\ text[1] \in {"\"", "'"} /\ text[Len(text)] = text[1]
      exports == UNION {{SubSeq(e.value, 2, Len(e.value) - 1) :
                           e \in {x \in Range(smalls[k].value.elements) :
                                    x.node = "SimpleString" /\ Quoted(x.value)}} :
                        k \in displays}
  IN IF displays # {} THEN Some(exports) ELSE None

\* the symbols of one small statement of a simple statement line
SmallSymbols(small, owner_fqn, module_fqn, exported_names, path_str) ==
  LET Vis(name) ==
        _determine_visibility(name, IF owner_fqn = module_fqn THEN exported_names ELSE None)
  IN IF small.node = "AnnAssign"
     THEN IF small.target = None THEN <<>>
          ELSE IF LastPart(small.annotation, ".") = TYPE_ALIAS /\ small.value # None
          THEN <<Symbol("type_alias", owner_fqn \o Dot \o small.target[1],
                        get_loc(path_str, small), None, <<>>, <<>>)>>
          ELSE <<_constant_from_assign(small.target[1], owner_fqn, Vis(small.target[1]),
                                       path_str, small)>>
     ELSE IF small.node = "Assign"
     THEN IF Len(small.targets) = 1 /\ small.targets[1] # None
          THEN <<_constant_from_assign(small.targets[1][1], owner_fqn,
                                       Vis(small.targets[1][1]), path_str, small)>>
          ELSE <<>>
     ELSE <<>>

handle_simple_stmt(stmt, owner_fqn, module_fqn, exported_names, path_str) ==
  Flatten([i \in DOMAIN stmt.body |->
             SmallSymbols(stmt.body[i], owner_fqn, module_fqn, exported_names, path_str)])

\* the symbols of one statement of a class body
MemberSymbols(cstmt, cls_fqn, module_fqn, exported_names, path_str) ==
  IF cstmt.node = "FunctionDef"
  THEN <<_function_from_def(cstmt, Some(cls_fqn), module_fqn, exported_names, path_str)>>
  ELSE IF cstmt.node = "SimpleStatementLine"
  THEN handle_simple_stmt(cstmt, cls_fqn, module_fqn, exported_names, path_str)
  ELSE <<>>

\* the symbols of one statement of the module body
StatementSymbols(stmt, module_fqn, exported_names, path_str) ==
  IF stmt.node = "FunctionDef"
  THEN <<_function_from_def(stmt, None, module_fqn, exported_names, path_str)>>
  ELSE IF stmt.node = "ClassDef"
  THEN <<[kind |-> "class", fqn |-> module_fqn \o Dot \o stmt.name,
          location |-> get_loc(path_str, stmt), owner |-> None,
          bases |-> stmt.bases, base_fqns |-> <<>>,
          visibility |-> _determine_visibility(stmt.name, None)]>>
       \o Flatten([i \in DOMAIN stmt.body |->
                     MemberSymbols(stmt.body[i], module_fqn \o Dot \o stmt.name,
                                   module_fqn, exported_names, path_str)])
  ELSE IF stmt.node = "SimpleStatementLine"
  THEN handle_simple_stmt(stmt, module_fqn, module_fqn, exported_names, path_str)
  ELSE IF stmt.node = "TypeAlias"
  THEN <<Symbol("type_alias", module_fqn \o Dot \o stmt.name, get_loc(path_str, stmt),
                None, <<>>, <<>>)>>
  ELSE <<>>

\* the symbols left in the order given
NoSort(ss) == ss

\* sorted(symbols, key=lambda s: s.fqn): stable
RECURSIVE InsertByFqn(_, _)
InsertByFqn(sorted, s) ==
  IF sorted = <<>> THEN <<s>>
  ELSE IF TextLess(s.fqn, Head(sorted).fqn) THEN <<s>> \o sorted
  ELSE <<Head(sorted)>> \o InsertByFqn(Tail(sorted), s)

RECURSIVE SortByFqn(_)
SortByFqn(ss) ==
  IF ss = <<>> THEN <<>>
  ELSE InsertByFqn(SortByFqn(SubSeq(ss, 1, Len(ss) - 1)), ss[Len(ss)])

extract_module(module, module_fqn, module_path) ==
  LET exported_names == _collect_exports(module)
  IN SortByFqn(<<Symbol("module", module_fqn, Location(module_path, 1, 0), None, <<>>, <<>>)>>
               \o Flatten([i \in DOMAIN module |->
                             StatementSymbols(module[i], module_fqn, exported_names,
                                              module_path)]))

\* the function definitions extract_module hands to _function_from_def
FunctionDefs(module) ==
  LET Members(stmt) == IF stmt.node = "ClassDef" THEN stmt.body ELSE <<stmt>>
  IN SelectSeq(Flatten([i \in DOMAIN module |-> Members(module[i])]),
               LAMBDA n : n.node = "FunctionDef")

\* the call extract_module(module, module_fqn, module_path): the symbols, or
\* the exception of the first docstring _parse_docstring_raises fails on
extract_module_call(module, module_fqn, module_path) ==
  LET failing == SelectSeq(FunctionDefs(module),
                           LAMBDA d : _parse_docstring_raises(d.doc).exc # None)
  IN IF failing # <<>> THEN _parse_docstring_raises(failing[1].doc)
     ELSE Return(extract_module(module, module_fqn, module_path))

\* a path is the sequence of its parts below the root
Slash == <<"/">>

PathStr(root, path) == Join(Slash, <<root>> \o path)

\* path.relative_to(root).with_suffix("").parts
WithoutSuffix(path) ==
  [i \in DOMAIN path |-> IF i = Len(path) THEN RSplitHead(path[i], ".") ELSE path[i]]

_module_fqn_for(path, root, package) == Join(Dot, <<package>> \o WithoutSuffix(path))

\* parsed: the (path, module) items of the dict, in insertion order
extract(parsed, root, package) ==
  SortByFqn(Flatten([i \in DOMAIN parsed |->
                       extract_module(parsed[i].module,
                                      _module_fqn_for(parsed[i].path, root, package),
                                      PathStr(root, parsed[i].path))]))

\* ---------------------------------------------------- build_import_tables

\* table after the names of one import statement, later names overriding
RECURSIVE ImportNames(_, _)
ImportNames(names, table) ==
  IF names = <<>> THEN table
  ELSE LET full == Head(names).name
           asname == IF Head(names).asname # None THEN Head(names).asname[1]
                     ELSE LastPart(full, ".")
       IN ImportNames(Tail(names), (asname :> full) @@ table)

\* ImportFromNames binding every name under its own name, "as" ignored
RECURSIVE ImportFromNamesNoAlias(_, _, _)
ImportFromNamesNoAlias(names, base_module, table) ==
  IF names = <<>> THEN table
  ELSE LET name == Head(names).name
           target == IF base_module # <<>> THEN base_module \o Dot \o name ELSE name
       IN ImportFromNamesNoAlias(Tail(names), base_module, (name :> target) @@ table)

RECURSIVE ImportFromNames(_, _, _)
ImportFromNames(names, base_module, table) ==
  IF names = <<>> THEN table
  ELSE LET name == Head(names).name
           target == IF base_module # <<>> THEN base_module \o Dot \o name ELSE name
           local == IF Head(names).asname # None THEN Head(names).asname[1] ELSE name
       IN ImportFromNames(Tail(names), base_module, (local :> target) @@ table)

\* the module a from-import names, relative dots resolved against mod_fqn
BaseModule(small, mod_fqn) ==
  LET parts == Split(mod_fqn, ".")
      pkg_all == SubSeq(parts, 1, Len(parts) - 1)
      ascend == IF small.relative > 0 THEN small.relative - 1 ELSE 0
      keep == IF Len(pkg_all) > ascend THEN Len(pkg_all) - ascend ELSE 0
      pkg_parts == IF small.relative > 0 THEN SubSeq(pkg_all, 1, keep) ELSE pkg_all
  IN IF small.module # None
     THEN Join(Dot, pkg_parts \o Split(small.module[1], "."))
     ELSE Join(Dot, pkg_parts)

RECURSIVE SmallImports(_, _, _)
SmallImports(smalls, mod_fqn, table) ==
  IF smalls = <<>> THEN table
  ELSE LET small == Head(smalls)
           next == IF small.node = "Import" THEN ImportNames(small.names, table)
                   ELSE IF small.node = "ImportFrom"
                   THEN ImportFromNames(small.names, BaseModule(small, mod_fqn), table)
                   ELSE table
       IN SmallImports(Tail(smalls), mod_fqn, next)

RECURSIVE ModuleImports(_, _, _)
ModuleImports(body, mod_fqn, table) ==
  IF body = <<>> THEN table
  ELSE ModuleImports(Tail(body), mod_fqn,
                     IF Head(body).node = "SimpleStatementLine"
                     THEN SmallImports(Head(body).body, mod_fqn, table)
                     ELSE table)

RECURSIVE build_import_tables(_, _, _)
build_import_tables(parsed, root, package) ==
  IF parsed = <<>> THEN EmptyMap
  ELSE LET last == parsed[Len(parsed)]
           mod_fqn == _module_fqn_for(last.path, root, package)
       IN (mod_fqn :> ModuleImports(last.module, mod_fqn, EmptyMap))
          @@ build_import_tables(SubSeq(parsed, 1, Len(parsed) - 1), root, package)

\* ------------------------------------------------------------------ link

\* {s.fqn for s in symbols if isinstance(s, ClassSymbol)}
ClassFqns(symbols) ==
  {symbols[i].fqn : i \in {j \in DOMAIN symbols : symbols[j].kind = "class"}}

\* NameToFqns with the FQNs of a name left in the order of the input
NameToFqnsInputOrder(symbols) ==
  LET fqns == [i \in DOMAIN symbols |-> symbols[i].fqn]
      names == {LastPart(fqns[i], ".") : i \in DOMAIN fqns}
  IN [name \in names |-> SelectSeq(fqns, LAMBDA f : LastPart(f, ".") = name)]

\* simple name -> sorted FQNs of every symbol with that last segment
NameToFqns(symbols) ==
  LET fqns == [i \in DOMAIN symbols |-> symbols[i].fqn]
      names == {LastPart(fqns[i], ".") : i \in DOMAIN fqns}
  IN [name \in names |->
        SortedTexts(SelectSeq(fqns, LAMBDA f : LastPart(f, ".") = name))]

\* _resolve_base with the import alias consulted before the same-module class
resolve_base_alias_first(base_txt, current_mod, import_tables, class_fqns, name_to_fqns) ==
  LET txt == Strip(base_txt)
      head == SplitFirst(txt, "[")
      parts == IF head # <<>> THEN Split(head, ".") ELSE <<>>
      alias_map == Get(import_tables, current_mod, EmptyMap)
  IN IF parts = <<>> THEN None
     ELSE IF Len(parts) > 1
     THEN LET first == parts[1]
              rest == Tail(parts)
              target == Get(alias_map, first, <<>>)
              candidate == Join(Dot, <<target>> \o rest)
          IN IF target # <<>>
             THEN IF candidate \in class_fqns THEN Some(candidate) ELSE None
             ELSE IF head \in class_fqns THEN Some(head) ELSE None
     ELSE LET simple == parts[1]
              same_mod_candidate == current_mod \o Dot \o simple
              target == Get(alias_map, simple, <<>>)
              matches == Get(name_to_fqns, simple, <<>>)
          IN IF target # <<>> /\ target \in class_fqns THEN Some(target)
             ELSE IF same_mod_candidate \in class_fqns THEN Some(same_mod_candidate)
             ELSE IF matches # <<>> THEN Some(matches[1])
             ELSE None

\* _resolve_base falling through to the whole dotted expression when the
\* alias-based candidate is no class
resolve_base_fallthrough(base_txt, current_mod, import_tables, class_fqns, name_to_fqns) ==
  LET txt == Strip(base_txt)
      head == SplitFirst(txt, "[")
      parts == IF head # <<>> THEN Split(head, ".") ELSE <<>>
      alias_map == Get(import_tables, current_mod, EmptyMap)
  IN IF parts = <<>> THEN None
     ELSE IF Len(parts) > 1
     THEN LET first == parts[1]
              rest == Tail(parts)
              target == Get(alias_map, first, <<>>)
              candidate == Join(Dot, <<target>> \o rest)
          IN IF target # <<>> /\ candidate \in class_fqns THEN Some(candidate)
             ELSE IF head \in class_fqns THEN Some(head) ELSE None
     ELSE LET simple == parts[1]
              same_mod_candidate == current_mod \o Dot \o simple
              target == Get(alias_map, simple, <<>>)
              matches == Get(name_to_fqns, simple, <<>>)
          IN IF same_mod_candidate \in class_fqns THEN Some(same_mod_candidate)
             ELSE IF target # <<>> /\ target \in class_fqns THEN Some(target)
             ELSE IF matches # <<>> THEN Some(matches[1])
             ELSE None

\* _resolve_base taking the alias target of a single identifier without the
\* class test
resolve_base_unchecked(base_txt, current_mod, import_tables, class_fqns, name_to_fqns) ==
  LET txt == Strip(base_txt)
      head == SplitFirst(txt, "[")
      parts == IF head # <<>> THEN Split(head, ".") ELSE <<>>
      alias_map == Get(import_tables, current_mod, EmptyMap)
  IN IF parts = <<>> THEN None
     ELSE IF Len(parts) > 1
     THEN LET first == parts[1]
              rest == Tail(parts)
              target == Get(alias_map, first, <<>>)
              candidate == Join(Dot, <<target>> \o rest)
          IN IF target # <<>>
             THEN IF candidate \in class_fqns THEN Some(candidate) ELSE None
             ELSE IF head \in class_fqns THEN Some(head) ELSE None
     ELSE LET simple == parts[1]
              same_mod_candidate == current_mod \o Dot \o simple
              target == Get(alias_map, simple, <<>>)
              matches == Get(name_to_fqns, simple, <<>>)
          IN IF same_mod_candidate \in class_fqns THEN Some(same_mod_candidate)
             ELSE IF target # <<>> THEN Some(target)
             ELSE IF matches # <<>> THEN Some(matches[1])
             ELSE None

_resolve_base(base_txt, current_mod, import_tables, class_fqns, name_to_fqns) ==
  LET txt == Strip(base_txt)
      head == SplitFirst(txt, "[")
      parts == IF head # <<>> THEN Split(head, ".") ELSE <<>>
      alias_map == Get(import_tables, current_mod, EmptyMap)
  IN IF parts = <<>> THEN None
     ELSE IF Len(parts) > 1
     THEN LET first == parts[1]
              rest == Tail(parts)
              target == Get(alias_map, first, <<>>)
              candidate == Join(Dot, <<target>> \o rest)
          IN IF target # <<>>
             THEN IF candidate \in class_fqns THEN Some(candidate) ELSE None
             ELSE IF head \in class_fqns THEN Some(head) ELSE None
     ELSE LET simple == parts[1]
              same_mod_candidate == current_mod \o Dot \o simple
              target == Get(alias_map, simple, <<>>)
              matches == Get(name_to_fqns, simple, <<>>)
          IN IF same_mod_candidate \in class_fqns THEN Some(same_mod_candidate)
             ELSE IF target # <<>> /\ target \in class_fqns THEN Some(target)
             ELSE IF matches # <<>> THEN Some(matches[1])
             ELSE None

link(symbols, import_tables) ==
  LET class_fqns == ClassFqns(symbols)
      name_to_fqns == NameToFqns(symbols)
      Resolved(s) ==
        LET current_mod == RSplitHead(s.fqn, ".")
            cands == {_resolve_base(s.bases[b], current_mod, import_tables,
                                    class_fqns, name_to_fqns) : b \in DOMAIN s.bases}
        IN {c[1] : c \in {d \in cands : d # None /\ d # Some(<<>>)}}
  IN [i \in DOMAIN symbols |->
        IF symbols[i].kind = "class"
        THEN [symbols[i] EXCEPT !.base_fqns = SortedSet(Resolved(symbols[i]))]
        ELSE symbols[i]]

\* -------------------------------------------------------------- validate

Arrow == <<" ", "-", ">", " ">>

\* jsonschema.validate(obj, schema) raises ValidationError for obj
SchemaViolation(symbol) == symbol.fqn \in schema_rejects

\* symbol.fqn in seen
IsDuplicateNever(symbol, seen) == FALSE

IsDuplicate(symbol, seen) == symbol.fqn \in seen

\* OwnerErrors without the check of ConstantSymbol owners
OwnerErrorsFunctionsOnly(symbol, fqn_set) ==
  IF /\ symbol.kind = "function"
     /\ symbol.owner # None
     /\ symbol.owner[1] \notin fqn_set
  THEN <<Error("missing_ref", "owner not found", symbol.fqn \o Arrow \o symbol.owner[1])>>
  ELSE <<>>

\* the missing_ref errors of one symbol, in the order the checks run
OwnerErrors(symbol, fqn_set) ==
  IF \/ /\ symbol.kind = "function"
        /\ symbol.owner # None
        /\ symbol.owner[1] \notin fqn_set
     \/ /\ symbol.kind = "constant"
        /\ (symbol.owner = None \/ symbol.owner[1] \notin fqn_set)
  THEN <<Error("missing_ref", "owner not found",
               symbol.fqn \o Arrow \o
                 (IF symbol.owner = None THEN <<"N", "o", "n", "e">> ELSE symbol.owner[1]))>>
  ELSE <<>>

\* BaseErrors leaving the loop at the first missing base
BaseErrorsFirstOnly(symbol, fqn_set) ==
  IF symbol.kind = "class"
  THEN LET missing == SelectSeq(symbol.base_fqns, LAMBDA b : b \notin fqn_set)
       IN IF missing = <<>> THEN <<>>
          ELSE <<Error("missing_ref", "base not found", symbol.fqn \o Arrow \o missing[1])>>
  ELSE <<>>

BaseErrors(symbol, fqn_set) ==
  IF symbol.kind = "class"
  THEN LET missing == SelectSeq(symbol.base_fqns, LAMBDA b : b \notin fqn_set)
       IN [i \in DOMAIN missing |->
             Error("missing_ref", "base not found", symbol.fqn \o Arrow \o missing[i])]
  ELSE <<>>

\* ValidateStep dropping a symbol the schema rejects without an error
ValidateStepDropRejected(symbol, fqn_set, acc) ==
  IF IsDuplicate(symbol, acc.seen)
  THEN [acc EXCEPT !.errors = Append(@, Error("duplicate", "duplicate fqn", symbol.fqn))]
  ELSE LET refs == OwnerErrors(symbol, fqn_set) \o BaseErrors(symbol, fqn_set)
       IN [objs |-> IF SchemaViolation(symbol) THEN acc.objs ELSE Append(acc.objs, symbol),
           errors |-> acc.errors \o refs,
           seen |-> acc.seen \cup {symbol.fqn},
           missing_refs_count |-> acc.missing_refs_count + Len(refs)]

\* one iteration of the loop over symbols; acc is (objs, errors, seen, count)
ValidateStep(symbol, fqn_set, acc) ==
  IF IsDuplicate(symbol, acc.seen)
  THEN [acc EXCEPT !.errors = Append(@, Error("duplicate", "duplicate fqn", symbol.fqn))]
  ELSE LET refs == OwnerErrors(symbol, fqn_set) \o BaseErrors(symbol, fqn_set)
       IN [objs |-> IF SchemaViolation(symbol) THEN acc.objs ELSE Append(acc.objs, symbol),
           errors |-> (IF SchemaViolation(symbol)
                       THEN Append(acc.errors, Error("schema", "schema", symbol.fqn))
                       ELSE acc.errors) \o refs,
           seen |-> acc.seen \cup {symbol.fqn},
           missing_refs_count |-> acc.missing_refs_count + Len(refs)]

RECURSIVE ValidateLoop(_, _, _)
ValidateLoop(symbols, k, acc) ==
  IF k > Len(symbols) THEN acc
  ELSE ValidateLoop(symbols, k + 1,
                    ValidateStep(symbols[k], {symbols[i].fqn : i \in DOMAIN symbols}, acc))

\* Result[ValidationOutput, tuple[Error, ...]]
validate(symbols) ==
  LET acc == ValidateLoop(symbols, 1,
               [objs |-> <<>>, errors |-> <<>>, seen |-> {}, missing_refs_count |-> 0])
  IN IF acc.errors # <<>>
     THEN [ok |-> FALSE, objects |-> <<>>, report |-> None, error |-> acc.errors]
     ELSE [ok |-> TRUE, objects |-> acc.objs,
           report |-> Some([symbol_count |-> Len(acc.objs),
                            missing_references |-> acc.missing_refs_count]),
           error |-> <<>>]

\* ----------------------------------------------------------------- index

\* the gram length of _to_grams
GramLen == 3

_to_grams(text) ==
  LET s == <<"^">> \o Lower(text) \o <<"$">>
  IN {SubSeq(s, i, i + GramLen - 1) : i \in 1..(Len(s) - GramLen + 1)}

\* index.sqlite3: whether the tables exist, the symbols rows, the grams rows
\* (a bag: the table has no key) and the AUTOINCREMENT counter
EmptyDb == [tables |-> FALSE, rows |-> {}, grams |-> EmptyBag, seq |-> 0]

\* IndexOne leaving the old postings of an updated row in place
IndexOneNoDelete(obj, db) ==
  LET fqn == obj.fqn
      name == Lower(LastPart(fqn, "."))
      existing == {r \in db.rows : r.fqn = fqn}
      sid == IF existing = {} THEN db.seq + 1 ELSE (CHOOSE r \in existing : TRUE).id
      grams == _to_grams(name) \cup _to_grams(fqn)
  IN [tables |-> TRUE,
      rows |-> (db.rows \ existing)
               \cup {[id |-> sid, fqn |-> fqn, name |-> name, kind |-> obj.kind, data |-> obj]},
      grams |-> db.grams (+) SetToBag({<<g, sid>> : g \in grams}),
      seq |-> IF existing = {} THEN db.seq + 1 ELSE db.seq]

\* IndexOne taking the postings from the fqn alone
IndexOneFqnOnly(obj, db) ==
  LET fqn == obj.fqn
      name == Lower(LastPart(fqn, "."))
      existing == {r \in db.rows : r.fqn = fqn}
      sid == IF existing = {} THEN db.seq + 1 ELSE (CHOOSE r \in existing : TRUE).id
      kept == IF existing = {} THEN db.grams
              ELSE [e \in {x \in DOMAIN db.grams : x[2] # sid} |-> db.grams[e]]
  IN [tables |-> TRUE,
      rows |-> (db.rows \ existing)
               \cup {[id |-> sid, fqn |-> fqn, name |-> name, kind |-> obj.kind, data |-> obj]},
      grams |-> kept (+) SetToBag({<<g, sid>> : g \in _to_grams(fqn)}),
      seq |-> IF existing = {} THEN db.seq + 1 ELSE db.seq]

\* the upsert of one object and the rewrite of its postings
IndexOne(obj, db) ==
  LET fqn == obj.fqn
      name == Lower(LastPart(fqn, "."))
      existing == {r \in db.rows : r.fqn = fqn}
      sid == IF existing = {} THEN db.seq + 1 ELSE (CHOOSE r \in existing : TRUE).id
      kept == IF existing = {} THEN db.grams
              ELSE [e \in {x \in DOMAIN db.grams : x[2] # sid} |-> db.grams[e]]
      grams == _to_grams(name) \cup _to_grams(fqn)
  IN [tables |-> TRUE,
      rows |-> (db.rows \ existing)
               \cup {[id |-> sid, fqn |-> fqn, name |-> name, kind |-> obj.kind, data |-> obj]},
      grams |-> kept (+) SetToBag({<<g, sid>> : g \in grams}),
      seq |-> IF existing = {} THEN db.seq + 1 ELSE db.seq]

\* the database after index(objs, db_path) has committed
RECURSIVE index(_, _)
index(objs, db) ==
  IF objs = <<>> THEN [db EXCEPT !.tables = TRUE]
  ELSE index(Tail(objs), IndexOne(Head(objs), db))

\* the output directory after an index() that raised: the directory or the
\* tables may have been created, no row is committed
IndexFailures(dir) ==
  {dir, [dir EXCEPT !.exists = TRUE, !.db.tables = TRUE]}

\* ------------------------------------------------------------------ emit

EmptyDir == [exists |-> FALSE, db |-> EmptyDb, jsonl |-> None,
             manifest |-> None, validation |-> None]

Manifest(package, extracted_at) ==
  [package |-> package, version |-> "version", commit |-> "commit",
   extracted_at |-> extracted_at, tool |-> "apictx"]

\* the output directory after emit() has written the three artifacts
emit(objs, manifest, report, dir) ==
  [dir EXCEPT !.exists = TRUE, !.jsonl = Some(objs),
              !.manifest = Some(manifest), !.validation = Some(report)]

\* the output directory after an emit() that raised: nothing written, or
\* symbols.jsonl cut short (here: after its first line), or written whole
\* with the later artifacts missing
EmitFailures(objs, manifest, report, dir) ==
  {dir,
   [dir EXCEPT !.exists = TRUE, !.jsonl = Some(IF objs = <<>> THEN <<>> ELSE <<Head(objs)>>)],
   [dir EXCEPT !.exists = TRUE, !.jsonl = Some(objs), !.manifest = Some(manifest)]}

\* ---------------------------------------------------------- source trees

t_pkg == <<"p", "k", "g">>
t_root == <<"r">>
t_Base == <<"B", "a", "s", "e">>
t_Alias == <<"A", "l", "i", "a", "s">>
t_Sub == <<"S", "u", "b">>
t_base == <<"b", "a", "s", "e">>
t_sub == <<"s", "u", "b">>
t_K == <<"K">>
t_m == <<"m">>
base_py == <<(<<"b", "a", "s", "e", ".", "p", "y">>)>>
sub_py == <<(<<"s", "u", "b", ".", "p", "y">>)>>

pkg_base == t_pkg \o Dot \o t_base
pkg_sub == t_pkg \o Dot \o t_sub
pkg_base_Base == pkg_base \o Dot \o t_Base
pkg_base_K == pkg_base \o Dot \o t_K
pkg_sub_Sub == pkg_sub \o Dot \o t_Sub

PassLine(line) == SimpleStatementLine(<<OtherStatement>>, Pos(line, 4))

\* class Base: pass
ModBase == <<ClassDef(t_Base, <<>>, <<PassLine(2)>>, Pos(1, 0))>>

\* from base import Base as Alias; class Sub(Alias): pass
ModSub ==
  <<SimpleStatementLine(
      <<ImportFrom(0, Some(t_base), <<ImportAlias(t_Base, Some(t_Alias))>>)>>, Pos(1, 0)),
    ClassDef(t_Sub, <<t_Alias>>, <<PassLine(4)>>, Pos(3, 0))>>

\* class Base: pass; def Base(): pass
ModDup ==
  <<ClassDef(t_Base, <<>>, <<PassLine(2)>>, Pos(1, 0)), FunctionDef(t_Base, <<>>, None, Pos(3, 0))>>

\* def Base(): pass; K = 1
ModFn ==
  <<FunctionDef(t_Base, <<>>, None, Pos(1, 0)),
    SimpleStatementLine(<<Assign(<<Some(t_K)>>, Expression(<<"1">>), Pos(3, 0))>>, Pos(3, 0))>>

\* class Sub(Base): def m(self): pass
ModPlain == <<ClassDef(t_Sub, <<t_Base>>, <<FunctionDef(t_m, <<>>, None, Pos(2, 4))>>, Pos(1, 0))>>

\* what a file of the tree may hold: nothing (no such file), text that does
\* not parse, or one of the modules above
Menu ==
  (base_py :> {"absent", "broken", "ModBase", "ModDup", "ModFn"})
  @@ (sub_py :> {"absent", "broken", "ModSub", "ModPlain"})

\* the file of the tree that changes between two calls
Edited == {base_py}

Trees == {t \in [DOMAIN Menu -> UNION {Menu[p] : p \in DOMAIN Menu}] :
            \A p \in DOMAIN Menu : t[p] \in Menu[p]}

Body(key) ==
  CASE key = "ModBase" -> ModBase
    [] key = "ModSub" -> ModSub
    [] key = "ModDup" -> ModDup
    [] key = "ModFn" -> ModFn
    [] key = "ModPlain" -> ModPlain
    [] OTHER -> <<>>

\* a < b for two paths: part by part
RECURSIVE PathLess(_, _)
PathLess(a, b) ==
  IF a = <<>> THEN b # <<>>
  ELSE IF b = <<>> THEN FALSE
  ELSE IF Head(a) = Head(b) THEN PathLess(Tail(a), Tail(b))
  ELSE TextLess(Head(a), Head(b))

RECURSIVE SortedPaths(_)
SortedPaths(S) ==
  IF S = {} THEN <<>>
  ELSE LET m == CHOOSE x \in S : \A y \in S : ~PathLess(y, x)
       IN <<m>> \o SortedPaths(S \ {m})

\* tuple(sorted(root.rglob("*.py")))
discover(t) == SortedPaths({p \in DOMAIN t : t[p] # "absent"})

\* Result.success / Result.failure
Success(value) == [ok |-> TRUE, value |-> Some(value), error |-> None]
Failure(error) == [ok |-> FALSE, value |-> None, error |-> Some(error)]

\* (path_str, Result[cst.Module, Error]) for the file at path
_parse_worker(path, t) ==
  [path |-> path,
   res |-> IF t[path] = "broken"
           THEN Failure(Error("parse", "exc", PathStr(t_root, path)))
           ELSE Success(Body(t[path]))]

\* parse pairing the i-th path with the i-th result to complete
parse_as_completed(ps, done) ==
  [k \in DOMAIN ps |-> [path |-> ps[k], res |-> done[k].pair.res]]

\* pool.map yields the pairs in the order of path_strings, whatever the order
\* in which the workers completed them (done)
parse(ps, done) ==
  [i \in DOMAIN ps |-> (CHOOSE d \in Range(done) : d.i = i).pair]

\* run_pipeline's modules: the parsed files, in the order of parsed_map
RECURSIVE Modules(_)
Modules(parsed_map) ==
  IF parsed_map = <<>> THEN <<>>
  ELSE LET h == Head(parsed_map)
       IN (IF h.res.ok /\ h.res.value # None
           THEN <<[path |-> h.path, module |-> h.res.value[1]]>> ELSE <<>>)
          \o Modules(Tail(parsed_map))

\* ParseErrors stopping at the first failing file
ParseErrorsFirstOnly(parsed_map) ==
  LET bad == SelectSeq(parsed_map, LAMBDA h : ~h.res.ok)
  IN IF bad = <<>> THEN <<>> ELSE <<bad[1].res.error[1]>>

\* run_pipeline's parse_errors
RECURSIVE ParseErrors(_)
ParseErrors(parsed_map) ==
  IF parsed_map = <<>> THEN <<>>
  ELSE LET h == Head(parsed_map)
       IN (IF h.res.ok /\ h.res.value # None THEN <<>>
           ELSE IF h.res.error # None THEN <<h.res.error[1]>> ELSE <<>>)
          \o ParseErrors(Tail(parsed_map))

\* ---------------------------------------------------------- run_pipeline

\* longest run of calls, largest worker count, most edits of the tree
MaxRuns == 2
MaxWorkers == 2
MaxEdits == 1

NoValidation == [ok |-> FALSE, objects |-> <<>>, report |-> None, error |-> <<>>]
NoReturn == [ok |-> FALSE, error |-> <<>>]

PipeStart(t) ==
  /\ tree = t
  /\ run = 0
  /\ workers = 1
  /\ pc = "start"
  /\ paths = <<>>
  /\ started = 0
  /\ running = {}
  /\ finished = <<>>
  /\ results = <<>>
  /\ modules = <<>>
  /\ extracted = <<>>
  /\ linked = <<>>
  /\ validated = NoValidation
  /\ outdir = EmptyDir
  /\ result = NoReturn
  /\ before = EmptyDir
  /\ trace = <<>>
  /\ emitted = <<>>
  /\ edits = 0

PureIdle ==
  /\ fn = "none"
  /\ in_symbols = <<>>
  /\ in_tables = EmptyMap
  /\ arg = <<>>
  /\ out = <<>>

Init ==
  /\ schema_rejects \in {{}, {pkg_base_K}}
  /\ PureIdle
  /\ \E t \in Trees : PipeStart(t)

\* run_pipeline is called: discover
Discover ==
  /\ pc \in {"start", "returned"}
  /\ run < MaxRuns
  /\ run' = run + 1
  /\ \E w \in 1..MaxWorkers : workers' = w
  /\ paths' = discover(tree)
  /\ pc' = "parse"
  /\ started' = 0
  /\ running' = {}
  /\ finished' = <<>>
  /\ results' = <<>>
  /\ modules' = <<>>
  /\ extracted' = <<>>
  /\ linked' = <<>>
  /\ validated' = NoValidation
  /\ before' = outdir
  /\ trace' = <<"Discover">>
  /\ UNCHANGED <<schema_rejects, pureVars, tree, outdir, result, emitted, edits>>

\* a free worker takes the next path of path_strings
ParseStart ==
  /\ pc = "parse"
  /\ started < Len(paths)
  /\ Cardinality(running) < workers
  /\ started' = started + 1
  /\ running' = running \cup {started + 1}
  /\ UNCHANGED <<schema_rejects, pureVars, tree, run, workers, pc, paths, finished,
                 results, modules, extracted, linked, validated, outdir, result, before,
                 trace, emitted, edits>>

\* a worker returns from _parse_worker
ParseFinish ==
  /\ pc = "parse"
  /\ \E i \in running :
       /\ running' = running \ {i}
       /\ finished' = Append(finished, i)
       /\ results' = Append(results, [i |-> i, pair |-> _parse_worker(paths[i], tree)])
  /\ UNCHANGED <<schema_rejects, pureVars, tree, run, workers, pc, paths, started,
                 modules, extracted, linked, validated, outdir, result, before, trace,
                 emitted, edits>>

\* Parse returning as soon as one worker has failed
ParseFailFast ==
  /\ pc = "parse"
  /\ \/ Len(finished) = Len(paths)
     \/ \E k \in DOMAIN results : ~results[k].pair.res.ok
  /\ LET parsed_map == [k \in DOMAIN results |-> results[k].pair]
         parse_errors == ParseErrors(parsed_map)
     IN /\ modules' = Modules(parsed_map)
        /\ IF parse_errors # <<>>
           THEN /\ result' = [ok |-> FALSE, error |-> parse_errors]
                /\ pc' = "returned"
           ELSE /\ pc' = "extract"
                /\ UNCHANGED result
  /\ trace' = Append(trace, "Parse")
  /\ UNCHANGED <<schema_rejects, pureVars, tree, run, workers, paths, started, running,
                 finished, results, extracted, linked, validated, outdir, before, emitted,
                 edits>>

\* parse returns the mapping; run_pipeline splits it and stops on parse errors
Parse ==
  /\ pc = "parse"
  /\ Len(finished) = Len(paths)
  /\ LET parsed_map == parse(paths, results)
         parse_errors == ParseErrors(parsed_map)
     IN /\ modules' = Modules(parsed_map)
        /\ IF parse_errors # <<>>
           THEN /\ result' = [ok |-> FALSE, error |-> parse_errors]
                /\ pc' = "returned"
           ELSE /\ pc' = "extract"
                /\ UNCHANGED result
  /\ trace' = Append(trace, "Parse")
  /\ UNCHANGED <<schema_rejects, pureVars, tree, run, workers, paths, started, running,
                 finished, results, extracted, linked, validated, outdir, before, emitted,
                 edits>>

Extract ==
  /\ pc = "extract"
  /\ extracted' = extract(modules, t_root, t_pkg)
  /\ pc' = "link"
  /\ trace' = Append(trace, "Extract")
  /\ UNCHANGED <<schema_rejects, pureVars, tree, run, workers, paths, started, running,
                 finished, results, modules, linked, validated, outdir, result, before,
                 emitted, edits>>

Link ==
  /\ pc = "link"
  /\ linked' = link(extracted, build_import_tables(modules, t_root, t_pkg))
  /\ pc' = "validate"
  /\ trace' = Append(trace, "Link")
  /\ UNCHANGED <<schema_rejects, pureVars, tree, run, workers, paths, started, running,
                 finished, results, modules, extracted, validated, outdir, result, before,
                 emitted, edits>>

\* Validate going on to Index whatever validate returned
ValidateUnchecked ==
  /\ pc = "validate"
  /\ validated' = validate(linked)
  /\ pc' = "index"
  /\ trace' = Append(trace, "Validate")
  /\ UNCHANGED <<schema_rejects, pureVars, tree, run, workers, paths, started, running,
                 finished, results, modules, extracted, linked, outdir, result, before,
                 emitted, edits>>

Validate ==
  /\ pc = "validate"
  /\ validated' = validate(linked)
  /\ IF ~validated'.ok
     THEN /\ result' = [ok |-> FALSE, error |-> validated'.error]
          /\ pc' = "returned"
     ELSE /\ pc' = "index"
          /\ UNCHANGED result
  /\ trace' = Append(trace, "Validate")
  /\ UNCHANGED <<schema_rejects, pureVars, tree, run, workers, paths, started, running,
                 finished, results, modules, extracted, linked, outdir, before, emitted,
                 edits>>

\* the stages of a call, in order
STAGES == <<"Discover", "Parse", "Extract", "Link", "Validate", "Index", "Emit">>

\* Index going on to Emit whatever index returned
IndexUnchecked ==
  /\ pc = "index"
  /\ \/ outdir' = [outdir EXCEPT !.exists = TRUE,
                                 !.db = index(validated.objects, outdir.db)]
     \/ outdir' \in IndexFailures(outdir)
  /\ pc' = "emit"
  /\ trace' = Append(trace, "Index")
  /\ UNCHANGED <<schema_rejects, pureVars, tree, run, workers, paths, started, running,
                 finished, results, modules, extracted, linked, validated, result, before,
                 emitted, edits>>

\* index commits, or raises and run_pipeline returns its error
Index ==
  /\ pc = "index"
  /\ \/ /\ outdir' = [outdir EXCEPT !.exists = TRUE,
                                    !.db = index(validated.objects, outdir.db)]
        /\ pc' = "emit"
        /\ UNCHANGED result
     \/ /\ outdir' \in IndexFailures(outdir)
        /\ result' = [ok |-> FALSE, error |-> <<Error("index", "exc", <<"d", "b">>)>>]
        /\ pc' = "returned"
  /\ trace' = Append(trace, "Index")
  /\ UNCHANGED <<schema_rejects, pureVars, tree, run, workers, paths, started, running,
                 finished, results, modules, extracted, linked, validated, before, emitted,
                 edits>>

\* emit writes the artifacts, or raises and run_pipeline returns its error
Emit ==
  /\ pc = "emit"
  /\ \/ /\ outdir' = emit(validated.objects, Manifest(t_pkg, run),
                          validated.report[1], outdir)
        /\ result' = [ok |-> TRUE, error |-> <<>>]
        /\ emitted' = Append(emitted, [tree |-> tree, finished |-> finished,
                                       jsonl |-> validated.objects])
     \/ /\ outdir' \in EmitFailures(validated.objects, Manifest(t_pkg, run),
                                    validated.report[1], outdir)
        /\ result' = [ok |-> FALSE, error |-> <<Error("emit", "exc", <<"o", "u", "t">>)>>]
        /\ UNCHANGED emitted
  /\ pc' = "returned"
  /\ trace' = Append(trace, "Emit")
  /\ UNCHANGED <<schema_rejects, pureVars, tree, run, workers, paths, started, running,
                 finished, results, modules, extracted, linked, validated, before, edits>>

\* between two calls the edited source file is rewritten, created or deleted
EditTree ==
  /\ pc = "returned"
  /\ run < MaxRuns
  /\ edits < MaxEdits
  /\ \E p \in Edited : \E c \in Menu[p] \ {tree[p]} :
       tree' = [tree EXCEPT ![p] = c]
  /\ edits' = edits + 1
  /\ pc' = "start"
  /\ UNCHANGED <<schema_rejects, pureVars, run, workers, paths, started, running,
                 finished, results, modules, extracted, linked, validated, outdir, result,
                 before, trace, emitted>>

Next ==
  \/ Discover
  \/ ParseStart
  \/ ParseFinish
  \/ Parse
  \/ Extract
  \/ Link
  \/ Validate
  \/ Index
  \/ Emit
  \/ EditTree

Spec == Init /\ [][Next]_vars

\* ------------------------------------------------- inputs of the pure runs

NoLocation == Location(<<>>, 1, 0)

p_a == <<"p", ".", "a">>
p_a_C == <<"p", ".", "a", ".", "C">>
p_a_Z == <<"p", ".", "a", ".", "Z">>

\* longest symbol sequence handed to validate
MaxSyms == 3

\* FQNs the drawn symbols carry, and the references they may hold (p.a.Z is
\* the FQN of no drawn symbol)
VFqns == {p_a, p_a_C}
VRefs == {p_a, p_a_Z}

VSymbols ==
  {Symbol("module", f, NoLocation, None, <<>>, <<>>) : f \in VFqns}
  \cup {Symbol("type_alias", f, NoLocation, None, <<>>, <<>>) : f \in VFqns}
  \cup {Symbol("function", f, NoLocation, o, <<>>, <<>>) :
          f \in VFqns, o \in {None} \cup {Some(r) : r \in VRefs}}
  \cup {Symbol("constant", f, NoLocation, Some(r), <<>>, <<>>) : f \in VFqns, r \in VRefs}
  \cup {Symbol("class", f, NoLocation, None, <<>>, b) :
          f \in VFqns, b \in {<<>>, <<p_a>>, <<p_a_Z>>, <<p_a, p_a_Z>>}}

SeqsUpTo(S, n) == UNION {[1..k -> S] : k \in 0..n}

NoResult == [ok |-> FALSE, objects |-> <<>>, report |-> None, error |-> <<>>]

\* ----------------------------------------------------- validate, applied

InitValidate ==
  /\ schema_rejects \in {{}, {p_a_C}}
  /\ fn = "none"
  /\ in_symbols \in SeqsUpTo(VSymbols, MaxSyms)
  /\ in_tables = EmptyMap
  /\ arg = <<>>
  /\ out = NoResult
  /\ PipeStart([p \in DOMAIN Menu |-> "absent"])

CallValidate ==
  /\ fn = "none"
  /\ fn' = "validate"
  /\ out' = validate(in_symbols)
  /\ UNCHANGED <<schema_rejects, in_symbols, in_tables, arg, pipeVars>>

SpecValidate == InitValidate /\ [][CallValidate]_vars

\* --------------------------------------------------------- link, applied

p_b == <<"p", ".", "b">>
p_a_S == <<"p", ".", "a", ".", "S">>
p_a_X == <<"p", ".", "a", ".", "X">>
p_b_X == <<"p", ".", "b", ".", "X">>
p_c_X == <<"p", ".", "c", ".", "X">>
p_z_X == <<"p", ".", "z", ".", "X">>

b_X == <<"b", ".", "X">>
p_b_X_T == <<"p", ".", "b", ".", "X", "[", "T", "]">>
p_z == <<"p", ".", "z">>

\* the base expressions of the drawn class p.a.S: X, X[T], b.X and p.b.X[T]
BaseTexts == {<<"X">>, <<"X", "[", "T", "]">>, b_X, p_b_X_T}

LSymbols ==
  {Symbol("class", p_a_S, NoLocation, None, <<b>>, <<>>) : b \in BaseTexts}
  \cup {Symbol(k, f, NoLocation, None, <<>>, <<>>) :
          k \in {"class", "function"}, f \in {p_a_X, p_b_X, p_c_X}}

\* the alias tables of module p.a: X unbound, or bound by an import
LTables ==
  {EmptyMap, p_a :> EmptyMap}
  \cup {p_a :> (<<"X">> :> t) : t \in {p_b_X, p_c_X, p_z_X}}
  \cup {p_a :> (<<"b">> :> p_b), p_a :> (<<"p">> :> p_z)}

InitLink ==
  /\ schema_rejects = {}
  /\ fn = "none"
  /\ in_symbols \in SeqsUpTo(LSymbols, MaxSyms)
  /\ in_tables \in LTables
  /\ arg = <<>>
  /\ out = <<>>
  /\ PipeStart([p \in DOMAIN Menu |-> "absent"])

CallLink ==
  /\ fn = "none"
  /\ fn' = "link"
  /\ out' = link(in_symbols, in_tables)
  /\ UNCHANGED <<schema_rejects, in_symbols, in_tables, arg, pipeVars>>

SpecLink == InitLink /\ [][CallLink]_vars

\* ----------------------------------------------- extract_module, applied

p_m == <<"p", ".", "m">>
m_py == <<"m", ".", "p", "y">>

t_f == <<"f">>
t__g == <<"_", "g">>
t_C == <<"C">>
t__D == <<"_", "D">>
t__L == <<"_", "L">>
t__h == <<"_", "h">>

\* the top-level names of the drawn module
TopNames == {t_f, t__g, t_C, t__D, t_K, t__L}

Quote(name) == <<"'">> \o name \o <<"'">>

\* __all__ = value
AllLine(value) ==
  SimpleStatementLine(<<Assign(<<Some(DUNDER_ALL)>>, value, Pos(1, 0))>>, Pos(1, 0))

\* def f / def _g / class C with a method _h and a constant K / class _D /
\* K = 1 / _L = 1
Definitions ==
  <<FunctionDef(t_f, <<>>, None, Pos(2, 0)),
    FunctionDef(t__g, <<>>, None, Pos(3, 0)),
    ClassDef(t_C, <<>>,
             <<FunctionDef(t__h, <<>>, None, Pos(5, 4)),
               SimpleStatementLine(<<Assign(<<Some(t_K)>>, Expression(<<"1">>), Pos(6, 4))>>,
                                   Pos(6, 4))>>,
             Pos(4, 0)),
    ClassDef(t__D, <<>>, <<PassLine(8)>>, Pos(7, 0)),
    SimpleStatementLine(<<Assign(<<Some(t_K)>>, Expression(<<"1">>), Pos(9, 0))>>, Pos(9, 0)),
    SimpleStatementLine(<<Assign(<<Some(t__L)>>, Expression(<<"1">>), Pos(10, 0))>>,
                        Pos(10, 0))>>

\* the values assigned to __all__: a list or tuple of string literals, one
\* holding a name that is no string literal, and an expression that is no
\* display
AllValues ==
  {List([k \in DOMAIN SortedSet(S) |-> SimpleString(Quote(SortedSet(S)[k]))]) :
     S \in SUBSET TopNames}
  \cup {Tuple(<<SimpleString(Quote(n))>>) : n \in TopNames}
  \cup {List(<<Expression(t_f), SimpleString(Quote(t_C))>>), Expression(t_f)}

\* the modules with and without an export list
ExportModules ==
  {Definitions} \cup {<<AllLine(v)>> \o Definitions : v \in AllValues}

\* the lines a drawn docstring is made of
DocLines ==
  {<<"R", "a", "i", "s", "e", "s", ":">>,
   <<"r", "a", "i", "s", "e", ":", " ", "K">>,
   <<"A", "r", "g", "s", ":">>,
   <<"K", ":", " ", "x">>,
   <<" ", "-", " ", "K", ":", " ", "x">>,
   <<" ", "X", ":", " ", "y">>,
   <<"-">>,
   <<":", "x">>,
   <<>>}

\* most lines of a drawn docstring
MaxLines == 4

\* the docstrings get_docstring() can return: cleaned, so that no blank line
\* leads or trails and the first line is not indented
Docstrings ==
  {Join(<<"\n">>, ls) :
     ls \in {l \in SeqsUpTo(DocLines, MaxLines) :
               l # <<>> => /\ Strip(l[1]) = l[1] /\ l[1] # <<>>
                           /\ Strip(l[Len(l)]) # <<>>}}

\* def f(): with a docstring
DocModules == {<<FunctionDef(t_f, <<>>, Some(d), Pos(1, 0))>> : d \in Docstrings}

\* the docstring of tests/test_docstrings_and_query.py as get_docstring()
\* returns it, and its two parts alone
NumpyRaises ==
  <<"R", "a", "i", "s", "e", "s", "\n", "-", "-", "-", "-", "-", "-", "\n", "M", "y",
    "E", "r", "r", ":", " ", "s", "o", "m", "e", " ", "d", "e", "t", "a", "i", "l",
    "s">>

DeprecatedLine ==
  <<"D", "e", "p", "r", "e", "c", "a", "t", "e", "d", ":", " ", "u", "s", "e", " ",
    "g", "(", ")", " ", "i", "n", "s", "t", "e", "a", "d", ".">>

AlsoSee ==
  <<"A", "l", "s", "o", " ", "s", "e", "e", ":", " ", ":", "r", "a", "i", "s", "e",
    "s", " ", "O", "t", "h", "e", "r", "E", "r", "r", ":", " ", "m", "o", "r", "e",
    " ", "d", "e", "t", "a", "i", "l", "s">>

t_MyErr ==
  <<"M", "y", "E", "r", "r">>

NumpyDoc ==
  <<"S", "u", "m", "m", "a", "r", "y", ".", "\n", "\n">> \o NumpyRaises \o <<"\n", "\n">>
  \o AlsoSee \o <<"\n", "\n">> \o DeprecatedLine

\* def f(x): with one of those docstrings and no decorator
NumpyModules ==
  {<<FunctionDef(t_f, <<>>, Some(d), Pos(1, 0))>> : d \in {NumpyDoc, NumpyRaises, DeprecatedLine}}

\* the decorator expressions drawn, as code: the four classified names, plain
\* or qualified, a longer name that ends with one of them, a call whose
\* argument is one of them, and an unrelated one
Decorators ==
  {<<"p", "r", "o", "p", "e", "r", "t", "y">>,
   <<"f", "u", "n", "c", "t", "o", "o", "l", "s", ".", "c", "a", "c", "h", "e", "d", "_", "p", "r", "o", "p", "e", "r", "t", "y">>,
   <<"c", "l", "a", "s", "s", "m", "e", "t", "h", "o", "d">>,
   <<"s", "t", "a", "t", "i", "c", "m", "e", "t", "h", "o", "d">>,
   <<"t", "y", "p", "i", "n", "g", ".", "o", "v", "e", "r", "l", "o", "a", "d">>,
   <<"l", "r", "u", "_", "c", "a", "c", "h", "e", "(", "p", "r", "o", "p", "e", "r", "t", "y", ")">>,
   <<"x", ".", "s", "e", "t", "t", "e", "r">>}

\* most decorators of the drawn method
MaxDecorators == 2

\* class C: with a method f under the drawn decorators
DecoratorModules ==
  {<<ClassDef(t_C, <<>>, <<FunctionDef(t_f, ds, None, Pos(3, 4))>>, Pos(1, 0))>> :
     ds \in SeqsUpTo(Decorators, MaxDecorators)}

InitExtract ==
  /\ schema_rejects = {}
  /\ fn = "none"
  /\ in_symbols = <<>>
  /\ in_tables = EmptyMap
  /\ arg \in ExportModules \cup DocModules \cup NumpyModules \cup DecoratorModules
  /\ out = <<>>
  /\ PipeStart([p \in DOMAIN Menu |-> "absent"])

CallExtract ==
  /\ fn = "none"
  /\ fn' = "extract_module"
  /\ out' = extract_module_call(arg, p_m, m_py)
  /\ UNCHANGED <<schema_rejects, in_symbols, in_tables, arg, pipeVars>>

\* the drawn module as m.py of the package p, next to base.py
ExtractParsed ==
  <<[path |-> <<m_py>>, module |-> arg], [path |-> base_py, module |-> ModBase]>>

\* pipeline.extract over the two modules and link over its result; the call
\* raises when extract_module does
CallPipelineExtract ==
  /\ fn = "none"
  /\ fn' = "extract"
  /\ out' = IF extract_module_call(arg, p_m, m_py).exc # None
            THEN extract_module_call(arg, p_m, m_py)
            ELSE LET symbols == extract(ExtractParsed, t_root, <<"p">>)
                 IN Return([extracted |-> symbols,
                            linked |-> link(symbols,
                                            build_import_tables(ExtractParsed, t_root,
                                                                <<"p">>))])
  /\ UNCHANGED <<schema_rejects, in_symbols, in_tables, arg, pipeVars>>

SpecExtract == InitExtract /\ [][CallExtract \/ CallPipelineExtract]_vars

\* ------------------------------------- _parse_docstring_raises, by steps

\* the loops of _parse_docstring_raises one iteration at a time: out holds the
\* place of the call (the head of the outer loop, the head of the inner loop,
\* returned, raised), the locals lines, i and names, and the value returned
InitRaises ==
  /\ schema_rejects = {}
  /\ fn = "none"
  /\ in_symbols = <<>>
  /\ in_tables = EmptyMap
  /\ arg = None
  /\ out = <<>>
  /\ PipeStart([p \in DOMAIN Menu |-> "absent"])

\* the lines of the docstrings the loops are run on: two section headers, an
\* entry, a bare bullet and a blank line
LoopLines ==
  {<<"R", "a", "i", "s", "e", "s", ":">>,
   <<"A", "r", "g", "s", ":">>,
   <<"K", ":", " ", "x">>,
   <<"-">>,
   <<>>}

\* most lines of such a docstring
MaxLoopLines == 3

LoopDocstrings ==
  {Join(<<"\n">>, ls) :
     ls \in {l \in SeqsUpTo(LoopLines, MaxLoopLines) :
               l # <<>> => /\ l[1] # <<>> /\ l[Len(l)] # <<>>}}

Frame(at, lines, i, names, returned) ==
  [at |-> at, lines |-> lines, i |-> i, names |-> names, result |-> returned]

\* the call, on no docstring or on a drawn one, up to the first test of the
\* outer loop
RaisesEnter ==
  /\ fn = "none"
  /\ fn' = "_parse_docstring_raises"
  /\ \E doc \in {None} \cup {Some(d) : d \in LoopDocstrings} :
       /\ arg' = doc
       /\ out' = IF doc = None \/ doc = Some(<<>>)
                 THEN Frame("returned", <<>>, 0, <<>>, <<>>)
                 ELSE Frame("outer",
                            [k \in DOMAIN SplitLines(doc[1]) |->
                               RStrip(SplitLines(doc[1])[k])],
                            0, <<>>, <<>>)
  /\ UNCHANGED <<schema_rejects, in_symbols, in_tables, pipeVars>>

\* the outer loop advancing only on the lines that are no header
RaisesOuterHeaderKept ==
  /\ fn = "_parse_docstring_raises"
  /\ out.at = "outer"
  /\ out' = IF ~(out.i < Len(out.lines))
            THEN [out EXCEPT !.at = "returned", !.result = FromKeys(out.names)]
            ELSE LET ln == Lower(Strip(out.lines[out.i + 1]))
                 IN IF StartsWith(ln, RAISES_COLON) \/ StartsWith(ln, RAISE_COLON)
                    THEN [out EXCEPT !.at = "inner"]
                    ELSE [out EXCEPT !.i = @ + 1]
  /\ UNCHANGED <<schema_rejects, fn, in_symbols, in_tables, arg, pipeVars>>

\* one test of the outer loop and what follows it up to the next loop head
RaisesOuter ==
  /\ fn = "_parse_docstring_raises"
  /\ out.at = "outer"
  /\ out' = IF ~(out.i < Len(out.lines))
            THEN [out EXCEPT !.at = "returned", !.result = FromKeys(out.names)]
            ELSE LET ln == Lower(Strip(out.lines[out.i + 1]))
                 IN IF StartsWith(ln, RAISES_COLON) \/ StartsWith(ln, RAISE_COLON)
                    THEN [out EXCEPT !.at = "inner", !.i = @ + 1]
                    ELSE [out EXCEPT !.i = @ + 1]
  /\ UNCHANGED <<schema_rejects, fn, in_symbols, in_tables, arg, pipeVars>>

\* one test of the inner loop and its body
RaisesInner ==
  /\ fn = "_parse_docstring_raises"
  /\ out.at = "inner"
  /\ out' = IF ~(out.i < Len(out.lines))
            THEN [out EXCEPT !.at = "outer"]
            ELSE LET stripped == Strip(out.lines[out.i + 1])
                     text == LStripChars(stripped, {"-", " "})
                     words == Words(SplitFirst(text, ":"))
                 IN IF stripped = <<>> THEN [out EXCEPT !.i = @ + 1]
                    ELSE IF EndsWith(stripped, <<":">>) /\ ~(" " \in Range(stripped))
                    THEN [out EXCEPT !.at = "outer"]
                    ELSE IF words = <<>> THEN [out EXCEPT !.at = "raised"]
                    ELSE [out EXCEPT !.i = @ + 1,
                                     !.names = IF words[1] # <<>>
                                               THEN Append(@, words[1]) ELSE @]
  /\ UNCHANGED <<schema_rejects, fn, in_symbols, in_tables, arg, pipeVars>>

RaisesNext == RaisesEnter \/ RaisesOuter \/ RaisesInner

\* the interpreter goes on executing a call that has not ended
SpecRaises == InitRaises /\ [][RaisesNext]_vars /\ WF_vars(RaisesNext)

\* ----------------------------------------------------------- query_index

\* the least size of the candidate pool and its size per requested result
PoolFloor == 50
PoolFactor == 5

NoneText == <<"N", "o", "n", "e">>

\* COUNT(*) of the join for one symbols row: its grams rows among the grams
Score(db, grams, id) ==
  BagCardinality([e \in {x \in DOMAIN db.grams : x[2] = id /\ x[1] \in grams}
                    |-> db.grams[e]])

\* ORDER BY with the fqn ignored for the score
BeforeFqnOnly(a, b, score) == TextLess(a.fqn, b.fqn)

\* ORDER BY score DESC, s.fqn ASC
Before(a, b, score) ==
  \/ score[a.id] > score[b.id]
  \/ score[a.id] = score[b.id] /\ TextLess(a.fqn, b.fqn)

\* the rows sorted in that order
Ranked(rows, score) ==
  LET ids == {r.id : r \in rows}
      top == IF ids = {} THEN 0 ELSE CHOOSE i \in ids : \A j \in ids : j <= i
      byId == [i \in 1..top |-> {r \in rows : r.id = i}]
      found == SelectSeq(byId, LAMBDA f : f # {})
      unsorted == [k \in DOMAIN found |-> CHOOSE r \in found[k] : TRUE]
  IN SortSeq(unsorted, LAMBDA a, b : Before(a, b, score))

Max(a, b) == IF a >= b THEN a ELSE b

\* the rows the approximate SELECT returns: the first pool rows (LIMIT ?)
ApproxRows(db, approx, limit) ==
  LET grams == _to_grams(approx)
      pool == Max(PoolFloor, limit * PoolFactor)
      score == [id \in {r.id : r \in db.rows} |-> Score(db, grams, id)]
      ranked == Ranked({r \in db.rows : score[r.id] > 0}, score)
  IN SubSeq(ranked, 1, IF Len(ranked) < pool THEN Len(ranked) ELSE pool)

\* the rows the exact SELECT returns
ExactRows(db, fqn) ==
  LET found == {r \in db.rows : r.fqn = fqn}
  IN IF found = {} THEN <<>> ELSE <<CHOOSE r \in found : TRUE>>

\* the three filters: str(obj.get(field)) == str(filter), where a missing or
\* null field reads None and str(None) is 'None'
Passes(obj, kind, visibility, owner) ==
  /\ kind # None => obj.kind = kind[1]
  /\ visibility # None =>
       (IF "visibility" \in DOMAIN obj THEN obj.visibility ELSE "None") = visibility[1]
  /\ owner # None =>
       (IF obj.owner = None THEN NoneText ELSE obj.owner[1]) = owner[1]

\* the loop over the rows: skip what a filter rejects, append, and break once
\* len(objs) >= limit
RECURSIVE Collect(_, _, _, _, _, _)
Collect(rows, objs, limit, kind, visibility, owner) ==
  IF rows = <<>> THEN objs
  ELSE IF ~Passes(Head(rows).data, kind, visibility, owner)
  THEN Collect(Tail(rows), objs, limit, kind, visibility, owner)
  ELSE IF Len(objs) + 1 >= limit THEN Append(objs, Head(rows).data)
  ELSE Collect(Tail(rows), Append(objs, Head(rows).data), limit, kind, visibility, owner)

\* fqn and approx are Optional texts, the filters Optional values; a SELECT
\* on a file without the tables raises
query_index(db, fqn, approx, limit, kind, visibility, owner) ==
  LET exact == fqn # None /\ fqn[1] # <<>>
      fuzzy == ~exact /\ approx # None /\ approx[1] # <<>>
      rows == IF exact THEN ExactRows(db, fqn[1])
              ELSE IF fuzzy THEN ApproxRows(db, approx[1], limit)
              ELSE <<>>
  IN IF (exact \/ fuzzy) /\ ~db.tables
     THEN Failure(Error("query", "exc", <<"d", "b">>))
     ELSE Success(Collect(rows, <<>>, limit, kind, visibility, owner))

\* ---------------------------------------------------- the query command

\* cli.query without the test of its two selectors
query_unchecked(db, fqn, approx, limit, kind, visibility, owner) ==
  LET res == query_index(db, fqn, approx, limit, kind, visibility, owner)
      call == [db |-> db, fqn |-> fqn, approx |-> approx, limit |-> limit,
               kind |-> kind, visibility |-> visibility, owner |-> owner]
  IN [exit |-> IF ~res.ok \/ res.value = None THEN 1 ELSE 0, calls |-> <<call>>]

\* cli.query: the exit status and the calls of query_index it made
query(db, fqn, approx, limit, kind, visibility, owner) ==
  IF (fqn = None) = (approx = None)
  THEN [exit |-> 2, calls |-> <<>>]
  ELSE LET res == query_index(db, fqn, approx, limit, kind, visibility, owner)
           call == [db |-> db, fqn |-> fqn, approx |-> approx, limit |-> limit,
                    kind |-> kind, visibility |-> visibility, owner |-> owner]
       IN [exit |-> IF ~res.ok \/ res.value = None THEN 1 ELSE 0, calls |-> <<call>>]

\* ---------------------------------------------------- query_index, applied

\* the package of tests/test_index_and_link.py
data_processor ==
  <<"d", "a", "t", "a", "_", "p", "r", "o", "c", "e", "s", "s", "o", "r">>
t_Processor ==
  <<"P", "r", "o", "c", "e", "s", "s", "o", "r">>
t_process ==
  <<"p", "r", "o", "c", "e", "s", "s">>
t_ValidationError ==
  <<"V", "a", "l", "i", "d", "a", "t", "i", "o", "n", "E", "r", "r", "o", "r">>
t_Exception ==
  <<"E", "x", "c", "e", "p", "t", "i", "o", "n">>
t_CSVProcessor ==
  <<"C", "S", "V", "P", "r", "o", "c", "e", "s", "s", "o", "r">>
t_validate_schema ==
  <<"v", "a", "l", "i", "d", "a", "t", "e", "_", "s", "c", "h", "e", "m", "a">>
csvproc_py ==
  <<(<<"c", "s", "v", "p", "r", "o", "c", ".", "p", "y">>)>>
processor_py ==
  <<(<<"p", "r", "o", "c", "e", "s", "s", "o", "r", ".", "p", "y">>)>>
csvprocesor ==
  <<"c", "s", "v", "p", "r", "o", "c", "e", "s", "o", "r">>

SchemaDoc ==
  <<"R", "a", "i", "s", "e", "s", ":", "\n", "V", "a", "l", "i", "d", "a", "t", "i",
    "o", "n", "E", "r", "r", "o", "r", ":", " ", "w", "h", "e", "n", " ", "s", "c",
    "h", "e", "m", "a", " ", "i", "n", "v", "a", "l", "i", "d">>

\* class Processor: def process(self, path): pass
ModProcessor ==
  <<ClassDef(t_Processor, <<>>, <<FunctionDef(t_process, <<>>, None, Pos(2, 4))>>, Pos(1, 0))>>

\* class ValidationError(Exception): pass
\* class CSVProcessor(Processor): def process, def validate_schema
ModCsvproc ==
  <<ClassDef(t_ValidationError, <<t_Exception>>, <<PassLine(2)>>, Pos(1, 0)),
    ClassDef(t_CSVProcessor, <<t_Processor>>,
             <<FunctionDef(t_process, <<>>, None, Pos(5, 4)),
               FunctionDef(t_validate_schema, <<>>, Some(SchemaDoc), Pos(8, 4))>>,
             Pos(4, 0))>>

CsvParsed ==
  <<[path |-> csvproc_py, module |-> ModCsvproc],
    [path |-> processor_py, module |-> ModProcessor]>>

\* the symbols run_pipeline indexes for that package
CsvSymbols ==
  link(extract(CsvParsed, t_root, data_processor),
       build_import_tables(CsvParsed, t_root, data_processor))

CsvStore == index(CsvSymbols, EmptyDb)

data_processor_csvproc_CSVProcessor ==
  data_processor \o Dot \o <<"c", "s", "v", "p", "r", "o", "c">> \o Dot \o t_CSVProcessor

\* the store of the module Definitions: public and private symbols, members
\* with an owner, a module symbol without visibility
DefsStore == index(extract_module(Definitions, p_m, m_py), EmptyDb)

p_m_C == p_m \o Dot \o t_C

\* a store of more rows than the candidate pool holds
BigRows == 57

Letters == <<"a", "b", "c", "d", "e", "f", "g", "h">>

\* q.aa, q.ab, ...: ascending with i
BigFqn(i) ==
  <<"q", ".", Letters[((i - 1) \div Len(Letters)) + 1], Letters[((i - 1) % Len(Letters)) + 1]>>

\* the first PoolFloor rows hold classes, the next PoolFactor constants, the
\* rest functions
BigSymbols ==
  [i \in 1..BigRows |->
     [kind |-> IF i <= PoolFloor THEN "class"
               ELSE IF i <= PoolFloor + PoolFactor THEN "constant" ELSE "function",
      fqn |-> BigFqn(i), location |-> NoLocation,
      owner |-> IF i > PoolFloor /\ i <= PoolFloor + PoolFactor
                THEN Some(<<"q">>) ELSE None,
      bases |-> <<>>, base_fqns |-> <<>>, visibility |-> "public"]]

\* the store after two calls of index, each adding half of the symbols
BigHalf == 29

BigStoreHalf == index(SubSeq(BigSymbols, 1, BigHalf), EmptyDb)

BigStore == index(SubSeq(BigSymbols, BigHalf + 1, BigRows), BigStoreHalf)

\* most results asked for
MaxLimit == 12

\* the (fqn, approx) arguments drawn for the stores of few rows
Modes ==
  {<<None, None>>,
   <<Some(p_m_C), None>>,
   <<Some(data_processor_csvproc_CSVProcessor), Some(csvprocesor)>>,
   <<Some(<<>>), Some(t_K)>>,
   <<None, Some(csvprocesor)>>,
   <<None, Some(p_m)>>,
   <<None, Some(t_process)>>,
   <<None, Some(<<>>)>>}

QueryCall(db, mode, limit, kind, visibility, owner) ==
  [db |-> db, fqn |-> mode[1], approx |-> mode[2], limit |-> limit,
   kind |-> kind, visibility |-> visibility, owner |-> owner]

\* the drawn calls: every filter over the stores of few rows, the kind filter
\* over the store that exceeds the pool
QueryCalls ==
  {QueryCall(db, mode, limit, kind, visibility, owner) :
     db \in {EmptyDb, CsvStore, DefsStore}, mode \in Modes, limit \in 0..MaxLimit,
     kind \in {None, Some("class"), Some("function"), Some("None")},
     visibility \in {None, Some("public"), Some("private"), Some("None")},
     owner \in {None, Some(NoneText), Some(p_m_C)}}
  \cup {QueryCall(BigStore, <<None, Some(<<"q", ".">>)>>, limit, kind, None, None) :
          limit \in 0..MaxLimit,
          kind \in {None, Some("class"), Some("constant"), Some("function")}}

InitQuery ==
  /\ schema_rejects = {}
  /\ fn = "none"
  /\ in_symbols = <<>>
  /\ in_tables = EmptyMap
  /\ arg \in QueryCalls
  /\ out = <<>>
  /\ PipeStart([p \in DOMAIN Menu |-> "absent"])

CallQueryIndex ==
  /\ fn = "none"
  /\ fn' = "query_index"
  /\ out' = query_index(arg.db, arg.fqn, arg.approx, arg.limit, arg.kind,
                        arg.visibility, arg.owner)
  /\ UNCHANGED <<schema_rejects, in_symbols, in_tables, arg, pipeVars>>

SpecQuery == InitQuery /\ [][CallQueryIndex]_vars

\* the query command over the same calls
CallQuery ==
  /\ fn = "none"
  /\ fn' = "query"
  /\ out' = query(arg.db, arg.fqn, arg.approx, arg.limit, arg.kind,
                  arg.visibility, arg.owner)
  /\ UNCHANGED <<schema_rejects, in_symbols, in_tables, arg, pipeVars>>

SpecCli == InitQuery /\ [][CallQuery]_vars

\* ------------------------------------------------- properties of validate

InFqns == {in_symbols[i].fqn : i \in DOMAIN in_symbols}

Occurrences(f) == Cardinality({i \in DOMAIN in_symbols : in_symbols[i].fqn = f})

ErrorCount(code, path) ==
  Cardinality({i \in DOMAIN out.error :
                 out.error[i].code = code /\ out.error[i].path = path})

\* the indices whose symbol is the first of its FQN
FirstOccurrences ==
  {i \in DOMAIN in_symbols : \A j \in 1..(i - 1) : in_symbols[j].fqn # in_symbols[i].fqn}

\* The dangling references of the symbols at the given indices: <<i, 0>> for
\* the owner of a function or constant, <<i, b>> for the b-th base_fqns entry.
Dangling(indices) ==
  {<<i, 0>> : i \in {j \in indices :
                       /\ in_symbols[j].kind \in {"function", "constant"}
                       /\ in_symbols[j].owner # None
                       /\ in_symbols[j].owner[1] \notin InFqns}}
  \cup UNION {{<<i, b>> : b \in {c \in DOMAIN in_symbols[i].base_fqns :
                                   in_symbols[i].base_fqns[c] \notin InFqns}} :
              i \in {j \in indices : in_symbols[j].kind = "class"}}

RefPath(d) ==
  in_symbols[d[1]].fqn \o Arrow \o
    (IF d[2] = 0 THEN in_symbols[d[1]].owner[1] ELSE in_symbols[d[1]].base_fqns[d[2]])

\* each dangling reference among `indices` has a missing_ref error of its own
EachReported(indices) ==
  \A d \in Dangling(indices) :
    ErrorCount("missing_ref", RefPath(d)) >=
      Cardinality({e \in Dangling(indices) : RefPath(e) = RefPath(d)})

\* C4: validate reports k-1 duplicate errors for an FQN that occurs k times,
\* none for an FQN that occurs once, no duplicate error for an FQN that is
\* not in the input, and fails (no output set) when any FQN is repeated.
C4_DuplicatePerLaterOccurrence ==
  fn = "validate" =>
    /\ \A f \in InFqns : ErrorCount("duplicate", f) = Occurrences(f) - 1
    /\ \A i \in DOMAIN out.error :
         out.error[i].code = "duplicate" => out.error[i].path \in InFqns
    /\ (\E f \in InFqns : Occurrences(f) > 1) => (~out.ok /\ out.objects = <<>>)

\* C4 witness: validate has run on a sequence holding one FQN three times
C4_Witness ==
  fn = "validate" /\ \E f \in InFqns : Occurrences(f) = 3

\* C5 (as claimed): every symbol of the input, later occurrences of an FQN
\* included, has a missing_ref error of its own for each dangling owner or
\* base_fqns entry.
C5_Original ==
  fn = "validate" => EachReported(DOMAIN in_symbols)

\* C5 (amended): every symbol that is the first occurrence of its FQN has a
\* missing_ref error of its own for each dangling owner or base_fqns entry,
\* whatever schema error it produced and whatever earlier symbols produced;
\* the errors are exactly those, and missing_ref errors alone fail the run.
C5_ClosureCheckedOnFirstOccurrences ==
  fn = "validate" =>
    /\ EachReported(FirstOccurrences)
    /\ Cardinality({i \in DOMAIN out.error : out.error[i].code = "missing_ref"})
         = Cardinality(Dangling(FirstOccurrences))
    /\ Dangling(FirstOccurrences) # {} => ~out.ok

\* C5 witness: two first occurrences each with a dangling reference, the
\* later one also rejected by the schema
C5_Witness ==
  /\ fn = "validate"
  /\ \E i, j \in FirstOccurrences :
       /\ i < j
       /\ Dangling({i}) # {}
       /\ Dangling({j}) # {}
       /\ in_symbols[j].fqn \in schema_rejects

\* the symbols that carry an owner
Owned == {i \in DOMAIN in_symbols :
            in_symbols[i].kind \in {"function", "constant"} /\ in_symbols[i].owner # None}

\* C6 (as claimed): when validate succeeds, every owner is the FQN of a
\* class or module symbol of the sequence.
C6_Original ==
  (fn = "validate" /\ out.ok) =>
    \A i \in Owned : \E j \in DOMAIN in_symbols :
      /\ in_symbols[j].fqn = in_symbols[i].owner[1]
      /\ in_symbols[j].kind \in {"class", "module"}

\* C6 (amended): when validate succeeds, every owner is the FQN of some
\* symbol of the sequence, of whatever kind.
C6_OwnerNamesSomeSymbol ==
  (fn = "validate" /\ out.ok) =>
    \A i \in Owned : \E j \in DOMAIN in_symbols :
      in_symbols[j].fqn = in_symbols[i].owner[1]

\* C6 witness: validate succeeded on a sequence in which a constant is owned
\* by a function
C6_Witness ==
  /\ fn = "validate"
  /\ out.ok
  /\ \E i \in Owned, j \in DOMAIN in_symbols :
       /\ in_symbols[i].kind = "constant"
       /\ in_symbols[j].fqn = in_symbols[i].owner[1]
       /\ in_symbols[j].kind = "function"

\* C8 (as claimed): validate succeeds only if every base_fqns entry is the
\* FQN of a class symbol of the set.
C8_Original ==
  (fn = "validate" /\ out.ok) =>
    \A i \in DOMAIN in_symbols : \A b \in DOMAIN in_symbols[i].base_fqns :
      in_symbols[i].kind = "class" =>
        \E j \in DOMAIN in_symbols :
          /\ in_symbols[j].kind = "class"
          /\ in_symbols[j].fqn = in_symbols[i].base_fqns[b]

\* ----------------------------------------------------- properties of link

InClassFqns ==
  {in_symbols[i].fqn : i \in {j \in DOMAIN in_symbols : in_symbols[j].kind = "class"}}

\* C7 (as claimed): every entry link writes into a class's base_fqns is the
\* FQN of a class symbol of the input sequence.
C7_Original ==
  fn = "link" =>
    \A i \in DOMAIN out : \A b \in DOMAIN out[i].base_fqns :
      out[i].kind = "class" => out[i].base_fqns[b] \in InClassFqns

\* a base expression that is one identifier: no dot, subscript or blank
PlainIdentifier(t) ==
  t # <<>> /\ \A i \in DOMAIN t : t[i] \notin {".", "[", "]", " "}

\* f is m.x for the identifier x
Qualifies(f, m, x) == f = m \o Dot \o x

\* the FQNs of the input whose last segment is the identifier x
SharingName(x) ==
  {f \in InFqns : f = x \/ \E k \in 0..Len(f) : Qualifies(f, SubSeq(f, 1, k), x)}

Least(S) == CHOOSE f \in S : \A g \in S : f = g \/ TextLess(f, g)

\* what the priority rule resolves identifier x to in module m: a set of at
\* most one FQN
ExpectedBase(m, x) ==
  LET same == m \o Dot \o x
      aliased == m \in DOMAIN in_tables /\ x \in DOMAIN in_tables[m]
  IN IF same \in InClassFqns THEN {same}
     ELSE IF aliased /\ in_tables[m][x] \in InClassFqns THEN {in_tables[m][x]}
     ELSE IF SharingName(x) # {} THEN {Least(SharingName(x))}
     ELSE {}

\* C10: for a class of module m all of whose base expressions are single
\* identifiers, link writes for each identifier x: m.x when that is a class
\* FQN; else the alias target of x when that is a class FQN; else the least
\* FQN sharing the simple name x; else nothing.
C10_ResolutionPriority ==
  fn = "link" =>
    \A i \in DOMAIN in_symbols :
      \A k \in 1..Len(in_symbols[i].fqn) :
        \A n \in {SubSeq(in_symbols[i].fqn, k + 1, Len(in_symbols[i].fqn))} :
          (/\ in_symbols[i].kind = "class"
           /\ PlainIdentifier(n)
           /\ in_symbols[i].fqn[k] = "."
           /\ \A b \in DOMAIN in_symbols[i].bases : PlainIdentifier(in_symbols[i].bases[b]))
          => Range(out[i].base_fqns) =
               UNION {ExpectedBase(SubSeq(in_symbols[i].fqn, 1, k - 1), in_symbols[i].bases[b]) :
                        b \in DOMAIN in_symbols[i].bases}

\* C10 witness: link has run on a class p.a.S(X) while p.a.X is a class and
\* X is also an import alias of the class p.b.X; the same-module class won
C10_Witness ==
  /\ fn = "link"
  /\ p_a \in DOMAIN in_tables
  /\ <<"X">> \in DOMAIN in_tables[p_a]
  /\ in_tables[p_a][<<"X">>] = p_b_X
  /\ {p_a_X, p_b_X} \subseteq InClassFqns
  /\ \E i \in DOMAIN out :
       /\ in_symbols[i].fqn = p_a_S
       /\ in_symbols[i].bases = <<(<<"X">>)>>
       /\ out[i].base_fqns = <<p_a_X>>


\* ------------------------------------------------ run_pipeline: properties

\* a call is in progress or has returned, and the tree is the one it read
InCall == pc # "start"

Ran(stage) == \E k \in DOMAIN trace : trace[k] = stage

\* the discovered files that do not parse
FailingFiles == {paths[i] : i \in {j \in DOMAIN paths : tree[paths[j]] = "broken"}}

\* C1: two runs over the same source tree that both succeed write the same
\* symbols.jsonl, the same objects in the same order, whatever the worker
\* counts and the order in which the workers completed.
C1_SameTreeSameJsonl ==
  \A i, j \in DOMAIN emitted :
    emitted[i].tree = emitted[j].tree => emitted[i].jsonl = emitted[j].jsonl

\* two successful runs over one tree of two modules whose workers completed
\* in different orders
C1_Witness ==
  /\ Len(emitted) = 2
  /\ emitted[1].tree = emitted[2].tree
  /\ emitted[1].finished # emitted[2].finished
  /\ Len(emitted[2].jsonl) >= 3
  /\ outdir.jsonl = Some(emitted[2].jsonl)

\* C2: when a discovered file fails to parse, the call returns a failure whose
\* errors are one "parse" error per failing file and nothing else; no later
\* stage runs, no symbol is extracted and the output directory is not written.
C2_ParseFailureAborts ==
  (InCall /\ FailingFiles # {}) =>
    /\ pc \in {"parse", "returned"}
    /\ \A k \in DOMAIN trace : trace[k] \in {"Discover", "Parse"}
    /\ extracted = <<>>
    /\ linked = <<>>
    /\ outdir = before
    /\ pc = "returned" =>
         /\ ~result.ok
         /\ Len(result.error) = Cardinality(FailingFiles)
         /\ \A k \in DOMAIN result.error : result.error[k].code = "parse"
         /\ \A f \in FailingFiles :
              \E k \in DOMAIN result.error : result.error[k].path = PathStr(t_root, f)

\* a call over a tree whose two files both fail to parse has returned
C2_Witness ==
  /\ pc = "returned"
  /\ Cardinality(FailingFiles) = 2
  /\ Len(result.error) = 2
  /\ result.error[1].path # result.error[2].path

\* C3: when validate reports errors, the call returns a failure carrying
\* exactly those errors, runs neither index nor emit, and the index store and
\* the output directory are as they were before the call.
C3_ValidationFailureAborts ==
  (InCall /\ Ran("Validate") /\ ~validated.ok) =>
    /\ pc = "returned"
    /\ trace = <<"Discover", "Parse", "Extract", "Link", "Validate">>
    /\ validated.error # <<>>
    /\ \A k \in DOMAIN validated.error :
         validated.error[k].code \in {"duplicate", "schema", "missing_ref"}
    /\ result = [ok |-> FALSE, error |-> validated.error]
    /\ outdir = before

\* a call that failed in validate after an earlier call had filled the store
\* and written the artifacts
C3_Witness ==
  /\ pc = "returned"
  /\ Ran("Validate")
  /\ ~validated.ok
  /\ before.db.rows # {}
  /\ before.jsonl # None
  /\ before.validation # None

\* base.py defines class Base; sub.py holds "from base import Base as Alias"
\* and "class Sub(Alias)"
AliasTree == tree[base_py] = "ModBase" /\ tree[sub_py] = "ModSub"

\* C9: over that tree, after build_import_tables and link the base_fqns of
\* pkg.sub.Sub contains pkg.base.Base, validate succeeds with
\* missing_references = 0, and the call succeeds unless index or emit raised.
C9_AliasedBaseLinked ==
  (InCall /\ AliasTree) =>
    /\ Ran("Link") =>
         \E k \in DOMAIN linked :
           /\ linked[k].kind = "class"
           /\ linked[k].fqn = pkg_sub_Sub
           /\ \E b \in DOMAIN linked[k].base_fqns : linked[k].base_fqns[b] = pkg_base_Base
    /\ Ran("Validate") =>
         /\ validated.ok
         /\ validated.report = Some([symbol_count |-> 4, missing_references |-> 0])
    /\ pc = "returned" =>
         \/ result.ok
         \/ /\ Len(result.error) = 1
            /\ result.error[1].code \in {"index", "emit"}

\* the call over that tree has succeeded and written Sub with its base
C9_Witness ==
  /\ pc = "returned"
  /\ AliasTree
  /\ result.ok
  /\ outdir.validation = Some([symbol_count |-> 4, missing_references |-> 0])
  /\ \E k \in DOMAIN linked :
       linked[k].fqn = pkg_sub_Sub /\ linked[k].base_fqns = <<pkg_base_Base>>


\* ------------------------------------------- link: the simple-name fallback

\* the base expression x of a class of module m is left to the global
\* simple-name fallback: m.x is no class and x is no alias of a class
FallsBack(m, x) ==
  /\ PlainIdentifier(x)
  /\ (m \o Dot \o x) \notin InClassFqns
  /\ ~(m \in DOMAIN in_tables /\ x \in DOMAIN in_tables[m]
       /\ in_tables[m][x] \in InClassFqns)

\* in_symbols in every order
Reorderings ==
  {[i \in DOMAIN in_symbols |-> in_symbols[p[i]]] : p \in Permutations(DOMAIN in_symbols)}

\* C11: when a single-identifier base is resolved by the simple-name fallback,
\* link writes the least FQN, in string order, among the symbols sharing that
\* simple name, and writes the same one for every order of the input sequence.
C11_FallbackPicksLeast ==
  fn = "link" =>
    \A i \in DOMAIN in_symbols : \A b \in DOMAIN in_symbols[i].bases :
      LET s == in_symbols[i]
          x == s.bases[b]
      IN (s.kind = "class" /\ FallsBack(RSplitHead(s.fqn, "."), x) /\ SharingName(x) # {})
         => /\ Least(SharingName(x)) \in Range(out[i].base_fqns)
            /\ \A r \in Reorderings :
                 \A j \in DOMAIN r :
                   r[j] = s => Least(SharingName(x)) \in Range(link(r, in_tables)[j].base_fqns)

\* link has run on p.a.S(X) with p.c.X ahead of p.b.X in the input, neither
\* in module p.a nor imported: p.b.X was written
C11_Witness ==
  /\ fn = "link"
  /\ in_tables = EmptyMap
  /\ Len(in_symbols) = 3
  /\ in_symbols[1].fqn = p_c_X
  /\ in_symbols[2].fqn = p_a_S
  /\ in_symbols[2].bases = <<(<<"X">>)>>
  /\ in_symbols[3].fqn = p_b_X
  /\ out[2].base_fqns = <<p_b_X>>


\* ------------------------------------------ extract_module: properties

\* the names a literal export list of the drawn module holds, when the
\* module assigns a list or tuple display to __all__
HasExportList ==
  /\ arg # <<>>
  /\ arg[1].node = "SimpleStatementLine"
  /\ arg[1].body[1].value.node \in {"List", "Tuple"}

Listed ==
  {SubSeq(e.value, 2, Len(e.value) - 1) :
     e \in {x \in Range(arg[1].body[1].value.elements) : x.node = "SimpleString"}}

\* the extracted symbols of kind function, class or constant that are
\* top-level names of module p.m
TopLevel ==
  {k \in DOMAIN out.value :
     /\ out.value[k].kind \in {"function", "class", "constant"}
     /\ RSplitHead(out.value[k].fqn, ".") = p_m}

\* C12 (as claimed): with a non-empty literal export list, every top-level
\* function, class and constant is public when its name is in the list and
\* private when it is not, whatever its leading underscore.
C12_Original ==
  (fn = "extract_module" /\ out.exc = None /\ HasExportList /\ Listed # {}) =>
    \A k \in TopLevel :
      out.value[k].visibility =
        IF LastPart(out.value[k].fqn, ".") \in Listed THEN "public" ELSE "private"


\* ------------------------------------------------------ index: properties

\* the (gram, id) rows of the grams table that belong to symbol id
Postings(db, id) == {e \in DOMAIN db.grams : e[2] = id}

\* C13: after any sequence of index() calls on the store, the symbols table
\* holds one row per fqn, and the postings of each row are the trigrams of its
\* lowercased last segment together with the trigrams of its fqn, each
\* (gram, id) pair once; no posting belongs to another id.
C13_OneRowPerFqnExactPostings ==
  LET db == outdir.db
  IN /\ \A r1, r2 \in db.rows : (r1.fqn = r2.fqn \/ r1.id = r2.id) => r1 = r2
     /\ \A r \in db.rows :
          /\ {e[1] : e \in Postings(db, r.id)}
               = _to_grams(Lower(LastPart(r.fqn, "."))) \cup _to_grams(r.fqn)
          /\ \A e \in Postings(db, r.id) : db.grams[e] = 1
     /\ \A e \in DOMAIN db.grams : \E r \in db.rows : r.id = e[2]

\* a second call has indexed again, after an edit of the tree, symbols whose
\* rows an earlier call had written
C13_Witness ==
  /\ pc = "returned"
  /\ result.ok
  /\ edits = 1
  /\ before.db.rows # {}
  /\ \E r \in before.db.rows : r \in outdir.db.rows
  /\ \E r \in outdir.db.rows : r \notin before.db.rows
  /\ \E r \in before.db.rows : \E q \in outdir.db.rows :
       q.fqn = r.fqn /\ q.id = r.id /\ q.kind # r.kind

\* ---------------------------------------------- properties of query_index

\* the call went through the approximate SELECT
Approximate == (arg.fqn = None \/ arg.fqn = Some(<<>>)) /\ arg.approx \notin {None, Some(<<>>)}

\* the call went through the exact SELECT
Exact == arg.fqn \notin {None, Some(<<>>)}

Returned == fn = "query_index" /\ out.ok

\* the number of distinct trigrams of the query among the postings of the
\* symbol with that fqn
Shared(f) ==
  LET r == CHOOSE x \in arg.db.rows : x.fqn = f
  IN Cardinality({g \in _to_grams(arg.approx[1]) : <<g, r.id>> \in DOMAIN arg.db.grams})

\* C14: the objects an approximate query returns are in non-increasing order
\* of score, the score of a symbol being the number of distinct trigrams of
\* the query among its postings, and objects of equal score are in ascending
\* fqn order, with or without filters.
C14_RankedByScoreThenFqn ==
  (Returned /\ Approximate) =>
    LET objs == out.value[1]
    IN \A i, j \in DOMAIN objs :
         i < j => \/ Shared(objs[i].fqn) > Shared(objs[j].fqn)
                  \/ /\ Shared(objs[i].fqn) = Shared(objs[j].fqn)
                     /\ TextLess(objs[i].fqn, objs[j].fqn)

\* a filtered approximate query returned objects of equal score and objects of
\* different score, and a symbol whose fqn sorts earlier scored less
C14_Witness ==
  /\ Returned /\ Approximate
  /\ arg.kind # None
  /\ LET objs == out.value[1]
     IN /\ \E i, j \in DOMAIN objs :
             i < j /\ Shared(objs[i].fqn) = Shared(objs[j].fqn)
        /\ \E i, j \in DOMAIN objs :
             /\ i < j /\ Shared(objs[i].fqn) > Shared(objs[j].fqn)
             /\ TextLess(objs[j].fqn, objs[i].fqn)

\* the position of the symbol with that fqn in the ranked candidate list
Rank(f) ==
  1 + Cardinality({r \in arg.db.rows :
                     /\ Shared(r.fqn) > 0
                     /\ \/ Shared(r.fqn) > Shared(f)
                        \/ Shared(r.fqn) = Shared(f) /\ TextLess(r.fqn, f)})

WithinPool(objs) ==
  \A i \in DOMAIN objs :
    /\ Shared(objs[i].fqn) > 0
    /\ Rank(objs[i].fqn) <= Max(PoolFloor, arg.limit * PoolFactor)

\* C15 (as stated): an approximate query with a non-negative limit returns at
\* most limit objects, each among the first max(50, limit*5) candidates of the
\* ranked candidate list.
C15_Original ==
  (Returned /\ Approximate) =>
    /\ Len(out.value[1]) <= arg.limit
    /\ WithinPool(out.value[1])

\* the object has the field, with the value of the filter
FieldIs(obj, field, filter) ==
  IF field = "owner" THEN obj.owner # None /\ obj.owner[1] = filter[1]
  ELSE field \in DOMAIN obj /\ obj[field] = filter[1]

\* C16 (as stated): every object an exact or approximate query returns has
\* each filtered field (kind, visibility, owner) present and equal to the
\* filter value.
C16_Original ==
  Returned =>
    \A i \in DOMAIN out.value[1] :
      \A field \in {"kind", "visibility", "owner"} :
        arg[field] # None => FieldIs(out.value[1][i], field, arg[field])

\* the unfiltered approximate query 'csvprocesor' over the store of the
\* package data_processor
CsvQuery ==
  /\ Returned /\ Approximate
  /\ arg.db = CsvStore /\ arg.approx = Some(csvprocesor)
  /\ arg.kind = None /\ arg.visibility = None /\ arg.owner = None
  /\ arg.limit >= 1

\* C17: with the class CSVProcessor indexed next to its module, its methods
\* and the unrelated class ValidationError, the approximate query
\* 'csvprocesor' ranks a symbol whose fqn ends with CSVProcessor first, and
\* that symbol shares more trigrams with the query than any other symbol.
C17_CSVProcessorRankedFirst ==
  CsvQuery =>
    /\ out.value[1] # <<>>
    /\ EndsWith(out.value[1][1].fqn, t_CSVProcessor)
    /\ \A r \in arg.db.rows :
         r.fqn # out.value[1][1].fqn => Shared(r.fqn) < Shared(out.value[1][1].fqn)

\* the query returned the class first and the other symbols of the package
\* after it
C17_Witness ==
  /\ CsvQuery
  /\ Len(out.value[1]) = Cardinality(arg.db.rows)
  /\ out.value[1][1].fqn = data_processor_csvproc_CSVProcessor
  /\ out.value[1][1].kind = "class"
  /\ \E i \in DOMAIN out.value[1] : out.value[1][i].fqn = RSplitHead(out.value[1][1].fqn, ".")
  /\ \E i \in DOMAIN out.value[1] : out.value[1][i].owner = Some(out.value[1][1].fqn)
  /\ \E i \in DOMAIN out.value[1] : /\ out.value[1][i].kind = "class"
                                    /\ EndsWith(out.value[1][i].fqn, t_ValidationError)

\* ------------------------------------------ properties of the query command

\* exactly one of --fqn and --approx was supplied
OneSelector == (arg.fqn = None) # (arg.approx = None)

\* the query reads a file that has no tables
QueryFails == (Exact \/ Approximate) /\ ~arg.db.tables

\* C18: the query command exits with status 2 without calling query_index
\* when both --fqn and --approx are supplied or neither is; with exactly one
\* of them it calls query_index once, with its own arguments, and exits 0 when
\* the query succeeds and 1 when it fails.
C18_QueryExitStatus ==
  fn = "query" =>
    IF OneSelector
    THEN /\ Len(out.calls) = 1
         /\ out.calls[1] = arg
         /\ out.exit = IF QueryFails THEN 1 ELSE 0
    ELSE out.exit = 2 /\ out.calls = <<>>

\* the command was given --approx alone over a file without the tables, called
\* query_index once and exited 1
C18_Witness ==
  /\ fn = "query"
  /\ arg.fqn = None /\ arg.approx = Some(csvprocesor)
  /\ ~arg.db.tables
  /\ Len(out.calls) = 1
  /\ out.exit = 1

\* -------------------------------------------- properties of extract_module

\* C19 (as stated): extract_module returns a symbol sequence for every
\* well-formed module, whatever its docstrings hold.
C19_Original == fn = "extract_module" => out.exc = None

\* the header lines, and the entry lines with the exception name each holds
HeaderLines == {<<"R", "a", "i", "s", "e", "s", ":">>, <<"r", "a", "i", "s", "e", ":", " ", "K">>}

EntryName ==
  (<<"K", ":", " ", "x">> :> <<"K">>)
  @@ (<<" ", "-", " ", "K", ":", " ", "x">> :> <<"K">>)
  @@ (<<" ", "X", ":", " ", "y">> :> <<"X">>)

BareHeader == <<"A", "r", "g", "s", ":">>

\* the lines of the docstring of the drawn function
DocOf == SplitLines(arg[1].doc[1])

\* the docstring is a header line, then entry lines up to position last, then
\* nothing or a bare header followed by lines that are no header
RaisesDoc(last) ==
  /\ Len(arg) = 1 /\ arg[1].node = "FunctionDef" /\ arg[1].doc # None
  /\ Len(DocOf) >= 2 /\ last \in 2..Len(DocOf)
  /\ DocOf[1] \in HeaderLines
  /\ \A k \in 2..last : DocOf[k] \in DOMAIN EntryName
  /\ last < Len(DocOf) =>
       /\ DocOf[last + 1] = BareHeader
       /\ \A k \in (last + 2)..Len(DocOf) : DocOf[k] \notin HeaderLines

\* the names of the entry lines 2..last, in order
Entries(last) == [k \in 1..(last - 1) |-> EntryName[DocOf[k + 1]]]

FirstIndex(s, x) == CHOOSE i \in DOMAIN s : s[i] = x /\ \A j \in 1..(i - 1) : s[j] # x

\* the raises field of the function symbol extract_module returned
FunctionOut == CHOOSE s \in Range(out.value) : s.kind = "function"

RaisesOut == FunctionOut.raises

\* C20: for a docstring made of a 'Raises:' or 'raise:' header line and
\* entry lines 'Name: detail', bulleted or not, the raises field holds each
\* name of the entries once, in first-seen order; the lines from the next bare
\* 'word:' header line on add nothing.
C20_RaisesOnceInFirstSeenOrder ==
  \A last \in 2..MaxLines :
    (fn = "extract_module" /\ RaisesDoc(last)) =>
      /\ out.exc = None
      /\ Range(RaisesOut) = Range(Entries(last))
      /\ \A p, q \in DOMAIN RaisesOut :
           p < q => /\ RaisesOut[p] # RaisesOut[q]
                    /\ FirstIndex(Entries(last), RaisesOut[p])
                       < FirstIndex(Entries(last), RaisesOut[q])

\* a docstring that names X, then K twice, gave the raises field (X, K)
C20_Witness ==
  /\ fn = "extract_module" /\ RaisesDoc(4)
  /\ Entries(4) = <<(<<"X">>), <<"K">>, <<"K">>>>
  /\ out.exc = None
  /\ RaisesOut = <<(<<"X">>), <<"K">>>>

\* C21 (as stated): a function without decorators whose docstring holds a
\* line 'Deprecated: ...' is extracted with deprecated = true, and one whose
\* docstring holds the header 'Raises' underlined with dashes and the line
\* 'MyErr: some details' has MyErr among its raises.
C21_Original ==
  (fn = "extract_module" /\ arg \in NumpyModules) =>
    /\ out.exc = None
    /\ Contains(arg[1].doc[1], DeprecatedLine) => FunctionOut.deprecated
    /\ Contains(arg[1].doc[1], NumpyRaises) => t_MyErr \in Range(FunctionOut.raises)

\* non-decreasing fqn order
SortedByFqn(ss) == \A i, j \in DOMAIN ss : i < j => ~TextLess(ss[j].fqn, ss[i].fqn)

\* C22: the sequence extract_module returns is sorted in non-decreasing fqn
\* order and holds exactly one symbol of kind module, whose fqn is the module
\* name passed in; the sequences pipeline.extract and link return are sorted
\* by fqn too.
C22_SortedWithOneModuleSymbol ==
  /\ (fn = "extract_module" /\ out.exc = None) =>
       /\ SortedByFqn(out.value)
       /\ Cardinality({i \in DOMAIN out.value : out.value[i].kind = "module"}) = 1
       /\ \A i \in DOMAIN out.value : out.value[i].kind = "module" => out.value[i].fqn = p_m
  /\ (fn = "extract" /\ out.exc = None) =>
       /\ SortedByFqn(out.value.extracted)
       /\ SortedByFqn(out.value.linked)
       /\ Len(out.value.linked) = Len(out.value.extracted)

\* extract and link returned the symbols of two modules, those of m.py in
\* another order than their definitions have in the file
C22_Witness ==
  /\ fn = "extract" /\ out.exc = None
  /\ arg = Definitions
  /\ Len(out.value.linked) > Len(Definitions) + 2
  /\ out.value.linked[1].fqn = <<"p">> \o Dot \o t_base
  /\ \E i, j \in DOMAIN out.value.linked :
       /\ i < j
       /\ out.value.linked[i].fqn = p_m \o Dot \o t_C
       /\ out.value.linked[j].fqn = p_m \o Dot \o t_f

\* C23: whenever validate succeeds, the report has missing_references = 0 and
\* a symbol_count equal to the number of symbols of the input and to the
\* number of objects of the output, and no owner or base_fqns entry of the
\* input dangles.
C23_SuccessReportCountsInput ==
  (fn = "validate" /\ out.ok) =>
    /\ out.report[1].missing_references = 0
    /\ out.report[1].symbol_count = Len(in_symbols)
    /\ out.report[1].symbol_count = Len(out.objects)
    /\ Dangling(DOMAIN in_symbols) = {}

\* validate succeeded on a module and one function of it: symbol_count = 2
C23_Witness ==
  /\ fn = "validate" /\ out.ok
  /\ Len(in_symbols) = 2
  /\ in_symbols[1].kind = "module" /\ in_symbols[2].kind = "function"
  /\ in_symbols[2].fqn = in_symbols[1].fqn \o Dot \o <<"C">>
  /\ out.report[1].symbol_count = 2

\* --------------------------------------------- the stages of run_pipeline

\* the store holds a row for each object the call validated
StorePopulated ==
  /\ outdir.db.tables
  /\ \A k \in DOMAIN validated.objects :
       \E r \in outdir.db.rows :
         r.fqn = validated.objects[k].fqn /\ r.data = validated.objects[k]

ArtifactsOf(dir) == <<dir.jsonl, dir.manifest, dir.validation>>

ReturnedWith(code) ==
  pc = "returned" /\ ~result.ok /\ \E k \in DOMAIN result.error : result.error[k].code = code

\* C24: the stages of a call run in the order parse, extract, link, validate,
\* index, emit, each after the one before it succeeded; emit starts after
\* index has committed, so a call that returns an emit error leaves the store
\* holding the symbols of that call, and a call that returns an index error
\* has written no artifact file.
C24_StagesInOrder ==
  InCall =>
    /\ Len(trace) <= Len(STAGES)
    /\ trace = SubSeq(STAGES, 1, Len(trace))
    /\ Ran("Extract") => FailingFiles = {}
    /\ Ran("Index") => validated.ok
    /\ Ran("Emit") => StorePopulated
    /\ ReturnedWith("emit") => StorePopulated /\ Ran("Emit")
    /\ ReturnedWith("index") =>
         /\ ~Ran("Emit")
         /\ ArtifactsOf(outdir) = ArtifactsOf(before)

\* a call returned an emit error with the symbols in the store and
\* symbols.jsonl not holding them all
C24_Witness ==
  /\ ReturnedWith("emit")
  /\ validated.objects # <<>>
  /\ StorePopulated
  /\ outdir.jsonl # Some(validated.objects)

\* C25: whatever the worker count and the order in which the workers finish,
\* every discovered file is attempted, and parse returns one entry per path,
\* in the order of the paths, each holding the outcome of that same file: its
\* tree, or a parse error tagged with its path.
C25_OneOutcomePerPath ==
  (InCall /\ Ran("Parse")) =>
    /\ Len(finished) = Len(paths)
    /\ Range(finished) = DOMAIN paths
    /\ LET parsed_map == parse(paths, results)
       IN /\ Len(parsed_map) = Len(paths)
          /\ \A i \in DOMAIN paths :
               /\ parsed_map[i].path = paths[i]
               /\ IF tree[paths[i]] = "broken"
                  THEN /\ ~parsed_map[i].res.ok
                       /\ parsed_map[i].res.error[1].code = "parse"
                       /\ parsed_map[i].res.error[1].path = PathStr(t_root, paths[i])
                  ELSE /\ parsed_map[i].res.ok
                       /\ parsed_map[i].res.value = Some(Body(tree[paths[i]]))

\* two workers finished in the reverse order of the paths, the first file
\* failing to parse and the second parsing
C25_Witness ==
  /\ InCall /\ Ran("Parse")
  /\ workers = 2
  /\ Len(paths) = 2
  /\ finished = <<2, 1>>
  /\ tree[paths[1]] = "broken"
  /\ tree[paths[2]] \notin {"broken", "absent"}

\* the decorator, call arguments dropped, has that trailing identifier
Trailing(decorator, ident) == LastPart(SplitFirst(decorator, "("), ".") = ident

\* the method extract_module returned for the drawn decorators
MethodOut == CHOOSE s \in Range(out.value) : s.kind = "function"

\* C26 (as stated): is_property, is_classmethod and is_staticmethod hold, and
\* overload_of is set, exactly when a decorator of the function, call
\* arguments ignored, has the trailing identifier property, classmethod,
\* staticmethod or overload.
C26_Original ==
  (fn = "extract_module" /\ arg \in DecoratorModules) =>
    LET ds == arg[1].body[1].decorators
        Has(ident) == \E k \in DOMAIN ds : Trailing(ds[k], ident)
    IN /\ MethodOut.is_property = Has(PROPERTY)
       /\ MethodOut.is_classmethod = Has(CLASSMETHOD)
       /\ MethodOut.is_staticmethod = Has(STATICMETHOD)
       /\ (MethodOut.overload_of # None) = Has(OVERLOAD)

\* ------------------------------------------------ link: dotted bases

\* the drawn dotted base expressions, by segments: the expression without its
\* subscript, its first segment, and the segments after it
DottedBases ==
  {[text |-> b_X, whole |-> b_X, first |-> <<"b">>, rest |-> <<"X">>],
   [text |-> p_b_X_T, whole |-> p_b_X, first |-> <<"p">>, rest |-> b_X]}

\* the first segment is bound by the alias table of module p.a
Bound(d) == p_a \in DOMAIN in_tables /\ d.first \in DOMAIN in_tables[p_a]

\* the alias-based candidate: resolved first segment + remaining segments
Candidate(d) == in_tables[p_a][d.first] \o <<".">> \o d.rest

\* link has run on the class p.a.S declared with the single dotted base d
LinkedDotted(i, d) ==
  /\ fn = "link"
  /\ i \in DOMAIN in_symbols
  /\ in_symbols[i].kind = "class"
  /\ in_symbols[i].fqn = p_a_S
  /\ in_symbols[i].bases = <<d.text>>

\* C27 as stated: the alias-based candidate is accepted only if it is a known
\* class FQN; when it is not accepted and the whole dotted expression is a
\* known class FQN, the base resolves to that expression; otherwise the base
\* is omitted from base_fqns.
C27_Original ==
  \A d \in DottedBases : \A i \in DOMAIN in_symbols :
    LinkedDotted(i, d) =>
      out[i].base_fqns =
        IF Bound(d) /\ Candidate(d) \in InClassFqns THEN <<Candidate(d)>>
        ELSE IF d.whole \in InClassFqns THEN <<d.whole>>
        ELSE <<>>

\* C27, amended: when the first segment of a dotted base is bound by the
\* module's alias table, the base resolves to the alias-based candidate if
\* that is a known class FQN and is omitted otherwise, even when the whole
\* expression is a known class FQN; when the first segment is not bound, the
\* base resolves to the whole expression if that is a known class FQN and is
\* omitted otherwise. Nothing else of the symbol changes and link returns a
\* plain sequence, no error.
C27_DottedBaseResolution ==
  \A d \in DottedBases : \A i \in DOMAIN in_symbols :
    LinkedDotted(i, d) =>
      /\ out[i] = [in_symbols[i] EXCEPT !.base_fqns = out[i].base_fqns]
      /\ out[i].base_fqns =
           IF Bound(d)
           THEN IF Candidate(d) \in InClassFqns THEN <<Candidate(d)>> ELSE <<>>
           ELSE IF d.whole \in InClassFqns THEN <<d.whole>> ELSE <<>>

\* link has run on p.a.S(p.b.X[T]) in a module that binds p to p.z while
\* p.b.X is a class: the candidate p.z.b.X is no class and the base is
\* omitted
C27_Witness ==
  \E i \in DOMAIN in_symbols :
    /\ LinkedDotted(i, [text |-> p_b_X_T, whole |-> p_b_X, first |-> <<"p">>, rest |-> b_X])
    /\ Bound([first |-> <<"p">>])
    /\ in_tables[p_a][<<"p">>] = p_z
    /\ p_b_X \in InClassFqns
    /\ out[i].base_fqns = <<>>

\* ------------------------------------------------ run_pipeline: references

\* the FQNs of the symbols of a sequence
FqnsOf(symbols) == {symbols[i].fqn : i \in DOMAIN symbols}

\* every owner and every base_fqns entry of the sequence names one of its symbols
Closed(symbols) ==
  \A i \in DOMAIN symbols :
    /\ symbols[i].owner # None => symbols[i].owner[1] \in FqnsOf(symbols)
    /\ \A b \in DOMAIN symbols[i].base_fqns : symbols[i].base_fqns[b] \in FqnsOf(symbols)

\* C28: in a call of run_pipeline every owner written by extract and every
\* base_fqns entry written by link is the fqn of a symbol of the same
\* sequence, so validate reports no missing_ref error: when it fails, each of
\* its errors is a duplicate or a schema error.
C28_NoMissingRefInPipeline ==
  /\ (InCall /\ Ran("Extract")) => Closed(extracted)
  /\ (InCall /\ Ran("Link")) => Closed(linked)
  /\ (InCall /\ Ran("Validate")) =>
       \A k \in DOMAIN validated.error :
         validated.error[k].code \in {"duplicate", "schema"}

\* validate has failed, on a duplicate, over symbols among which a method has
\* an owner and a class has a resolved base
C28_Witness ==
  /\ InCall
  /\ Ran("Validate")
  /\ ~validated.ok
  /\ \E k \in DOMAIN validated.error : validated.error[k].code = "duplicate"
  /\ \E i \in DOMAIN linked : linked[i].kind = "function" /\ linked[i].owner = Some(pkg_sub_Sub)
  /\ \E i \in DOMAIN linked : linked[i].kind = "class" /\ linked[i].base_fqns = <<pkg_base_Base>>

\* ------------------------------------ _parse_docstring_raises: termination

RaisesEnded == fn = "_parse_docstring_raises" /\ out.at \in {"returned", "raised"}

\* a step of the loops never moves the line index back, and a test of the
\* outer loop that does not end the call moves it forward by one
RaisesAdvance ==
  (fn = "_parse_docstring_raises" /\ out.at \in {"outer", "inner"}) =>
    /\ out'.i >= out.i
    /\ out'.i <= Len(out.lines)
    /\ (out.at = "outer" /\ out'.at # "returned") => out'.i = out.i + 1

\* C29: _parse_docstring_raises ends on every docstring, by returning what
\* the function computes or by raising: every test of the outer loop that
\* does not end the call advances the line index, the inner loop never moves
\* it back, also when the inner loop stops at a header it does not consume
\* and that header is another 'Raises:' line.
C29_ParseDocstringRaisesTerminates ==
  /\ <>RaisesEnded
  /\ [][RaisesAdvance]_vars
  /\ [](RaisesEnded =>
          _parse_docstring_raises(arg) =
            IF out.at = "raised" THEN Raise("IndexError") ELSE Return(out.result))

\* the call has returned on a docstring whose 'Raises:' section is stopped by
\* a second 'Raises:' line, whose own section names K
C29_Witness ==
  /\ RaisesEnded
  /\ out.at = "returned"
  /\ Len(out.lines) >= 3
  /\ out.lines[1] = <<"R", "a", "i", "s", "e", "s", ":">>
  /\ out.lines[2] = <<"R", "a", "i", "s", "e", "s", ":">>
  /\ out.result = <<(<<"K">>)>>

\* ------------------------------------------- run_pipeline: index and jsonl

\* the FQNs of the rows of index.sqlite3
StoredFqns == {r.fqn : r \in outdir.db.rows}

\* C30 as stated: after every successful call, whatever calls went before
\* into the same output directory, the FQNs stored in index.sqlite3 are the
\* FQNs written to symbols.jsonl by that call.
C30_Original ==
  (pc = "returned" /\ result.ok /\ outdir.jsonl # None) =>
    StoredFqns = FqnsOf(outdir.jsonl[1])

====
